---- MODULE Spec2Model ----
(***************************************************************************)
(* LogKitchen: the generator framework (generators/base.py) and the five   *)
(* format generators, as a state machine.                                  *)
(*                                                                         *)
(* Time.  A datetime is [sec, ms]: whole seconds since the Unix epoch and  *)
(* the sub-second part in milliseconds (Python keeps microseconds; no      *)
(* format of the program prints more than milliseconds).                   *)
(*                                                                         *)
(* Randomness.  The program draws from two process-wide streams: the       *)
(* module-level stream of Python's random module and the stream shared by  *)
(* all Faker instances.  A stream is a state in 0..RngMod-1; a draw reads  *)
(* the state and advances it; random.seed(n) sets it to SeedState(n).      *)
(* The code of every operation is written once, as an operator of the      *)
(* values it draws; the stream-driven actions take those values from the   *)
(* streams, the range-driven actions take the lowest and the highest value *)
(* random.randint can return and the first and the last random.choice can. *)
(*                                                                         *)
(* Strings.  The text of a line is a sequence of code points: 124 is the   *)
(* pipe, 92 the backslash; each literal of the source is written out with  *)
(* the literal in a comment above it.                                      *)
(***************************************************************************)
EXTENDS Integers, Sequences, FiniteSets, TLC

VARIABLES
    now,        \* the wall clock, what datetime.now() returns
    rng,        \* state of the process-wide stream of the random module
    fakerRng,   \* state of the stream shared by all Faker instances
    gens,       \* the generator instances: kind, seed, current_time, sequence_counter
    out,        \* per instance, the lines its generate calls have returned so far
    hist,       \* history: per instance, its constructor's result and its calls
    call        \* the last call of an operation on its own: arguments and result

vars == <<now, rng, fakerRng, gens, out, hist, call>>

----------------------------------------------------------------------------
(* Bounds of the model *)

MaxCalls == 2       \* generate calls per instance
MaxTicks == 1       \* advances of the wall clock
MaxSeed == 1        \* integer seeds 0..MaxSeed
RngMod == 4         \* number of states of a random stream
MaxCount == 2       \* the count argument of generate_logs is at most MaxCount

----------------------------------------------------------------------------
(* datetime *)

\* 2026-12-31 23:59:58 UTC, the wall clock when the model starts: one step
\* later the clock has crossed the minute, hour, day, month and year boundaries
NowSec0 == 20818 * 86400 + 86398

\* the wall clock advances in steps of TickMs milliseconds
TickMs == 2000 + 600

\* the ms field of a timestamp printed by a format whose finest field is %S
NoMillis == 0 - 1

DateTime(s, m) == [sec |-> s, ms |-> m]

\* dt - timedelta(milliseconds = d), d of either sign
MinusMs(dt, d) ==
    LET t == dt.ms - d
    IN  DateTime(dt.sec + (t \div 1000), t % 1000)

\* dt - timedelta(seconds = s)
MinusSeconds(dt, s) == DateTime(dt.sec - s, dt.ms)

\* dt1 <= dt2
DtLeq(dt1, dt2) == dt1.sec < dt2.sec \/ (dt1.sec = dt2.sec /\ dt1.ms <= dt2.ms)

----------------------------------------------------------------------------
(* The random streams *)

\* seed argument: None or an integer
None == <<>>
Some(n) == <<n>>
Seeds == {None} \cup {Some(n) : n \in 0..MaxSeed}

\* Python's truth value of the seed argument, as tested by "if seed:"
Truthy(seed) == seed # None /\ seed[1] # 0

\* random.seed(n): the state a stream is set to
SeedState(n) == n % RngMod

\* the value a draw reads, and the state it leaves
Raw(s) == s
RngNext(s) == (s + 1) % RngMod

RECURSIVE Step(_, _)
Step(s, n) == IF n <= 0 THEN s ELSE Step(RngNext(s), n - 1)

\* the state after n draws; the stream returns to a state after RngMod draws
Advance(s, n) == Step(s, n % RngMod)

\* the value of the n-th draw from state s
NthRaw(s, n) == Raw(Advance(s, n - 1))

\* random.randint(a, b) as a function of the value drawn
randint(raw, a, b) == a + (raw % (b - a + 1))

\* random.uniform(0.5, 5) seconds as a function of the value drawn, in ms
uniform_ms(raw) == 500 + ((raw * 2250) % 4501)

----------------------------------------------------------------------------
(* Generator instances *)

Inst == {"A", "B"}
BaseKinds == {"syslog", "auditd", "cef", "windows"}
Kinds == BaseKinds \cup {"pos"}

\* the keys of each generator's event-weight table, in table order
EventTypes(kind) ==
    CASE kind = "syslog" ->
           <<"ssh", "sudo", "auth", "cron", "systemd", "kernel", "network">>
      [] kind = "auditd" ->
           <<"syscall", "execve", "user_auth", "user_cmd", "cred", "login">>
      [] kind = "cef" -> <<"TRAFFIC", "THREAT", "SYSTEM">>
      [] kind = "windows" ->
           <<"4624", "4625", "4634", "4672", "4720", "4732", "4740", "4768",
             "4776", "5140", "5156", "5157">>
      [] kind = "pos" ->
           <<"api_request", "user_auth", "api_request_with_user", "pam_ssh",
             "ssh_error", "movement">>

\* which generators call self.faker (ipv4_public, user_name, first_name, ...)
UsesFaker(kind) == kind \in BaseKinds

max_days_past == 7

NoGen == [kind |-> "none", seed |-> None, current_time |-> DateTime(0, 0),
          sequence_counter |-> 0]

\* draws of random made by a constructor after BaseLogGenerator.__init__:
\* AuditdGenerator draws sequence_counter, VerifonePOSGenerator draws the
\* three octets of each of its 200 store_ips
CtorDraws(kind) ==
    CASE kind = "auditd" -> 1
      [] kind = "pos" -> 3 * 200
      [] OTHER -> 0

\* BaseLogGenerator.__init__ on streams s (random) and f (Faker): the streams
\* it leaves and the instance's seed and reference clock
BaseInit(seed, clock, s, f) ==
    [seed |-> seed,
     rng |-> IF Truthy(seed) THEN SeedState(seed[1]) ELSE s,
     faker |-> IF Truthy(seed) THEN SeedState(seed[1]) ELSE f,
     current_time |-> clock]

\* <Kind>Generator.__init__(seed); seq0 is the value random.randint(100, 10000)
\* returns to AuditdGenerator
__init__(kind, seed, clock, s, f, seq0) ==
    LET b == BaseInit(seed, clock, s, f)
    IN  [g |-> [kind |-> kind, seed |-> b.seed, current_time |-> b.current_time,
                sequence_counter |-> IF kind = "auditd" THEN seq0 ELSE 0],
         rng |-> Advance(b.rng, CtorDraws(kind)),
         faker |-> b.faker]

----------------------------------------------------------------------------
(* Field synthesizers of the base class *)

\* values of random.randint(a, b) the model draws: both ends of the range
RandintSamples(a, b) == {a, b}

\* generate_datetime adding the offset to the reference clock
generate_datetime_added(g, seconds_past) ==
    MinusSeconds(g.current_time, 0 - seconds_past)

\* BaseLogGenerator.generate_datetime, seconds_past the offset drawn
generate_datetime(g, seconds_past) == MinusSeconds(g.current_time, seconds_past)

\* strftime with a format whose finest field is %S: the sub-second part is dropped
StrftimeSeconds(dt) == DateTime(dt.sec, NoMillis)

\* BaseLogGenerator.generate_timestamp, seconds_past the offset drawn
generate_timestamp(g, seconds_past) ==
    StrftimeSeconds(MinusSeconds(g.current_time, seconds_past))

\* the model's octet of a public address, by position
PublicOctets(k) ==
    CASE k = 1 -> {1, 9, 10, 11, 100, 127, 171, 172, 173, 192, 193, 223, 224}
      [] k = 2 -> {0, 15, 16, 31, 32, 64, 167, 168, 169, 255}
      [] OTHER -> {0, 255}

\* a.b.c.d/len, len <= 24, holds ip: they agree on the first len bits
InNet(ip, net, len) ==
    LET top(x) == (x[1] * 65536 + x[2] * 256 + x[3]) \div (2 ^ (24 - len))
    IN  top(ip) = top(net)

\* Faker's private networks and its excluded special-purpose networks
FakerPrivateNets ==
    {<<<<10, 0, 0, 0>>, 8>>, <<<<172, 16, 0, 0>>, 12>>, <<<<192, 168, 0, 0>>, 16>>}
FakerExcludedNets ==
    {<<<<0, 0, 0, 0>>, 8>>, <<<<100, 64, 0, 0>>, 10>>, <<<<127, 0, 0, 0>>, 8>>,
     <<<<169, 254, 0, 0>>, 16>>, <<<<192, 0, 0, 0>>, 24>>, <<<<192, 0, 2, 0>>, 24>>,
     <<<<192, 31, 196, 0>>, 24>>, <<<<192, 52, 193, 0>>, 24>>,
     <<<<192, 88, 99, 0>>, 24>>, <<<<192, 175, 48, 0>>, 24>>,
     <<<<198, 18, 0, 0>>, 15>>, <<<<198, 51, 100, 0>>, 24>>,
     <<<<203, 0, 113, 0>>, 24>>, <<<<224, 0, 0, 0>>, 4>>, <<<<240, 0, 0, 0>>, 4>>}

\* Faker.ipv4(): any address
ipv4 ==
    {<<a, b, c, d>> : a \in PublicOctets(1), b \in PublicOctets(2),
                      c \in PublicOctets(3), d \in PublicOctets(4)}

\* Faker.ipv4_public(): an address of no private and no excluded network
ipv4_public ==
    {ip \in ipv4 :
        \A n \in FakerPrivateNets \cup FakerExcludedNets : ~InNet(ip, n[1], n[2])}

\* generate_ip_address drawing the second octet of 172.x by randint(16, 32)
generate_ip_address_32(private) ==
    IF private
    THEN {<<10, a, b, c>> : a \in RandintSamples(0, 255), b \in RandintSamples(0, 255),
                            c \in RandintSamples(1, 254)}
         \cup {<<172, a, b, c>> : a \in RandintSamples(16, 32),
                                  b \in RandintSamples(0, 255),
                                  c \in RandintSamples(1, 254)}
         \cup {<<192, 168, a, b>> : a \in RandintSamples(0, 255),
                                    b \in RandintSamples(1, 254)}
    ELSE ipv4_public

\* generate_ip_address returning a private address whatever `private` is
generate_ip_address_private(private) ==
    {<<10, a, b, c>> : a \in RandintSamples(0, 255), b \in RandintSamples(0, 255),
                       c \in RandintSamples(1, 254)}
    \cup {<<172, a, b, c>> : a \in RandintSamples(16, 31),
                             b \in RandintSamples(0, 255),
                             c \in RandintSamples(1, 254)}
    \cup {<<192, 168, a, b>> : a \in RandintSamples(0, 255),
                               b \in RandintSamples(1, 254)}

\* BaseLogGenerator.generate_ip_address(private): the addresses it can return,
\* as octets
generate_ip_address(private) ==
    IF private
    THEN {<<10, a, b, c>> : a \in RandintSamples(0, 255), b \in RandintSamples(0, 255),
                            c \in RandintSamples(1, 254)}
         \cup {<<172, a, b, c>> : a \in RandintSamples(16, 31),
                                  b \in RandintSamples(0, 255),
                                  c \in RandintSamples(1, 254)}
         \cup {<<192, 168, a, b>> : a \in RandintSamples(0, 255),
                                    b \in RandintSamples(1, 254)}
    ELSE ipv4_public

----------------------------------------------------------------------------
(* One generated line: the generator, the event type dispatched to, the      *)
(* timestamp printed, the auditd sequence number, what the line takes from   *)
(* the live wall clock, and the remaining fields drawn.                      *)

NoLive == 0 - 1

Line(kind, event, ts, seq, live, body) ==
    [kind |-> kind, event |-> event, ts |-> ts, seq |-> seq, live |-> live,
     body |-> body]

\* _get_audit_timestamp with the increment drawn by randint(0, 10)
_get_audit_timestamp_from0(g, seconds_past, millisec, inc) ==
    LET dt == generate_datetime(g, seconds_past)
        counter == g.sequence_counter + (inc - 1)
    IN  [ts |-> DateTime(dt.sec, millisec), seq |-> counter,
         g |-> [g EXCEPT !.sequence_counter = counter]]

\* _get_audit_timestamp taking the first entry out of the instance's executables
_get_audit_timestamp_pops(g, seconds_past, millisec, inc) ==
    [ts |-> DateTime(generate_datetime(g, seconds_past).sec, millisec),
     seq |-> g.sequence_counter + inc,
     g |-> [g EXCEPT !.sequence_counter = @ + inc,
                     !.tables = [executables |-> Tail(@.executables)]]]

\* _get_audit_timestamp advancing the counter twice in one call
_get_audit_timestamp_twice(g, seconds_past, millisec, inc) ==
    LET dt == generate_datetime(g, seconds_past)
        counter == g.sequence_counter + inc + inc
    IN  [ts |-> DateTime(dt.sec, millisec), seq |-> counter,
         g |-> [g EXCEPT !.sequence_counter = counter]]

\* AuditdGenerator._get_audit_timestamp: the timestamp text, the sequence
\* number, and the instance with its counter advanced
_get_audit_timestamp(g, seconds_past, millisec, inc) ==
    LET dt == generate_datetime(g, seconds_past)
        counter == g.sequence_counter + inc
    IN  [ts |-> DateTime(dt.sec, millisec), seq |-> counter,
         g |-> [g EXCEPT !.sequence_counter = counter]]

\* days since 1970-01-01 to the civil date of the proleptic Gregorian calendar
CivilFromDays(days) ==
    LET z == days + 719468
        era == z \div 146097
        doe == z - era * 146097
        yoe == (doe - (doe \div 1460) + (doe \div 36524) - (doe \div 146096)) \div 365
        doy == doe - (365 * yoe + (yoe \div 4) - (yoe \div 100))
        mp == (5 * doy + 2) \div 153
        d == doy - ((153 * mp + 2) \div 5) + 1
        m == IF mp < 10 THEN mp + 3 ELSE mp - 9
    IN  [year |-> yoe + era * 400 + (IF m <= 2 THEN 1 ELSE 0), month |-> m, day |-> d]

\* Text is a sequence of code points; "0" is 48
RECURSIVE Decimal(_)
Decimal(n) == IF n < 10 THEN <<48 + n>> ELSE Decimal(n \div 10) \o <<48 + (n % 10)>>

\* n printed zero-padded to width w, as %m %d %H %M %S and %f print
RECURSIVE Pad(_, _)
Pad(n, w) == IF w <= 0 THEN <<>> ELSE Pad(n \div 10, w - 1) \o <<48 + (n % 10)>>

\* VerifonePOSGenerator._generate_timestamp: '%Y-%m-%d %H:%M:%S.%f'[:-3],
\* the six digits of %f cut to the milliseconds; %Y prints the year unpadded
_generate_timestamp(base_time) ==
    LET c == CivilFromDays(base_time.sec \div 86400)
        t == base_time.sec % 86400
    IN  Decimal(c.year) \o <<45>> \o Pad(c.month, 2) \o <<45>> \o Pad(c.day, 2)
        \o <<32>> \o Pad(t \div 3600, 2) \o <<58>> \o Pad((t % 3600) \div 60, 2)
        \o <<58>> \o Pad(t % 60, 2) \o <<46>> \o Pad(base_time.ms, 3)

\* the day of the wall clock, printed by _generate_pam_ssh_log as %m-%d
LiveDay(event, clock) ==
    IF event = "pam_ssh" THEN clock.sec \div 86400 ELSE NoLive

\* the six VerifonePOSGenerator._generate_*_log(timestamp)
PosLog(event, timestamp, clock, d) ==
    Line("pos", event, timestamp, 0, LiveDay(event, clock), <<d.fields, d.names>>)

\* the text of a Verifone line: the timestamp, "     - Store <id> - ", and
\* the rest of the line (one code point per event type stands for it)
PosText(line) ==
    _generate_timestamp(line.ts) \o <<32, 32, 32, 32, 32, 45, 32>>
    \o <<83, 116, 111, 114, 101, 32>> \o Decimal(line.body[1]) \o <<32, 45, 32>>
    \o <<96 + CHOOSE k \in 1..6 : EventTypes("pos")[k] = line.event>>

\* a < b for Python strings: by code point, a proper prefix first
RECURSIVE StrLess(_, _)
StrLess(a, b) ==
    IF b = <<>> THEN FALSE
    ELSE IF a = <<>> THEN TRUE
    ELSE IF Head(a) # Head(b) THEN Head(a) < Head(b)
    ELSE StrLess(Tail(a), Tail(b))

\* generate_log anchoring the Verifone record to the reference clock of the
\* instance
generate_log_at_reference(g, clock, d) ==
    [line |-> PosLog(d.event, MinusSeconds(g.current_time, d.seconds_past), clock, d),
     g |-> g]

\* <Kind>Generator.generate_log on instance g at wall clock `clock`, d the
\* values drawn: the line returned and the instance afterwards
generate_log(g, clock, d) ==
    CASE g.kind = "auditd" ->
           LET a == _get_audit_timestamp(g, d.seconds_past, d.millisec, d.inc)
           IN  [line |-> Line("auditd", d.event, a.ts, a.seq, NoLive,
                              <<d.fields, d.names>>),
                g |-> a.g]
      [] g.kind = "syslog" ->
           [line |-> Line("syslog", d.event, generate_timestamp(g, d.seconds_past),
                          0, NoLive, <<d.fields, d.names>>),
            g |-> g]
      [] g.kind \in {"cef", "windows"} ->
           [line |-> Line(g.kind, d.event,
                          StrftimeSeconds(generate_datetime(g, d.seconds_past)),
                          0, NoLive, <<d.fields, d.names>>),
            g |-> g]
      [] g.kind = "pos" ->
           [line |-> PosLog(d.event, MinusSeconds(clock, d.seconds_past), clock, d),
            g |-> g]

----------------------------------------------------------------------------
(* Draws taken from the streams *)

\* draws of random per generate_log call: event type, timestamp offset,
\* (auditd: milliseconds, counter increment), the other fields
PyDraws(kind) == IF kind = "auditd" THEN 5 ELSE 3
FakerDraws(kind) == IF UsesFaker(kind) THEN 1 ELSE 0

Pick(seq, raw) == seq[1 + (raw % Len(seq))]

\* the values one generate_log call of a `kind` generator draws from stream
\* states s (random) and f (Faker)
StreamDraws(kind, s, f) ==
    IF kind = "pos"
    THEN [seconds_past |-> randint(NthRaw(s, 1), 0, 3600),
          event |-> Pick(EventTypes(kind), NthRaw(s, 2)),
          millisec |-> 0, inc |-> 0,
          fields |-> randint(NthRaw(s, 3), 100, 799),
          names |-> 0]
    ELSE [event |-> Pick(EventTypes(kind), NthRaw(s, 1)),
          seconds_past |-> randint(NthRaw(s, 2), 0, max_days_past * 24 * 3600),
          millisec |-> IF kind = "auditd" THEN randint(NthRaw(s, 3), 0, 999) ELSE 0,
          inc |-> IF kind = "auditd" THEN randint(NthRaw(s, 4), 1, 10) ELSE 0,
          fields |-> NthRaw(s, PyDraws(kind)),
          names |-> IF UsesFaker(kind) THEN Raw(f) ELSE 0]

\* one generate_log call driven by the process-wide streams: the line, the
\* instance and the streams afterwards
StreamLog(g, clock, s, f) ==
    LET r == generate_log(g, clock, StreamDraws(g.kind, s, f))
    IN  [line |-> r.line, g |-> r.g,
         rng |-> Advance(s, PyDraws(g.kind)),
         faker |-> Advance(f, FakerDraws(g.kind))]

----------------------------------------------------------------------------
(* generate_logs *)

\* generate_logs building its list by inserting each line at the front
RECURSIVE generate_logs_front(_, _, _, _)
generate_logs_front(g, clock, count, draws) ==
    IF count <= 0 THEN [lines |-> <<>>, g |-> g]
    ELSE LET r == generate_logs_front(g, clock, count - 1, draws)
             one == generate_log(r.g, clock, draws[count])
         IN  [lines |-> <<one.line>> \o r.lines, g |-> one.g]

\* BaseLogGenerator.generate_logs(count), draws[k] the values the k-th
\* generate_log call draws: [self.generate_log() for _ in range(count)]
RECURSIVE generate_logs(_, _, _, _)
generate_logs(g, clock, count, draws) ==
    IF count <= 0 THEN [lines |-> <<>>, g |-> g]
    ELSE LET r == generate_logs(g, clock, count - 1, draws)
             one == generate_log(r.g, clock, draws[count])
         IN  [lines |-> Append(r.lines, one.line), g |-> one.g]

\* list.sort(reverse=True) of lines: descending by text, equal texts in
\* their original order
RECURSIVE InsertDesc(_, _)
InsertDesc(sorted, x) ==
    IF sorted = <<>> THEN <<x>>
    ELSE IF StrLess(PosText(Head(sorted)), PosText(x)) THEN <<x>> \o sorted
    ELSE <<Head(sorted)>> \o InsertDesc(Tail(sorted), x)

RECURSIVE SortDesc(_)
SortDesc(logs) ==
    IF logs = <<>> THEN <<>>
    ELSE InsertDesc(SortDesc(SubSeq(logs, 1, Len(logs) - 1)), logs[Len(logs)])

\* the loop of VerifonePOSGenerator.generate_logs: record i of range(count)
\* is back-dated by (count - i) * uniform(0.5, 5) seconds from base_time
PosAppended(base_time, count, draws) ==
    [k \in 1..count |->
        PosLog(draws[k].event, MinusMs(base_time, (count - (k - 1)) * draws[k].u),
               base_time, draws[k])]

\* VerifonePOSGenerator.generate_logs returning the list as the loop built it
pos_generate_logs_unsorted(g, clock, count, draws) ==
    IF count <= 0 THEN [lines |-> <<>>, g |-> g]
    ELSE [lines |-> PosAppended(clock, count, draws), g |-> g]

\* VerifonePOSGenerator.generate_logs(count) at wall clock `clock`
pos_generate_logs(g, clock, count, draws) ==
    IF count <= 0 THEN [lines |-> <<>>, g |-> g]
    ELSE [lines |-> SortDesc(PosAppended(clock, count, draws)), g |-> g]

\* the values the k-th generate_log call of a generate_logs(count) call takes
\* from the stream states s and f
BaseStreamDraws(kind, s, f, count) ==
    [k \in 1..count |->
        StreamDraws(kind, Advance(s, (k - 1) * PyDraws(kind)),
                    Advance(f, (k - 1) * FakerDraws(kind)))]

\* the values record k of VerifonePOSGenerator.generate_logs takes from s:
\* uniform, choices, and the store id for the fields
PosStreamDraws(s, count) ==
    [k \in 1..count |->
        [u |-> uniform_ms(NthRaw(s, 3 * (k - 1) + 1)),
         event |-> Pick(EventTypes("pos"), NthRaw(s, 3 * (k - 1) + 2)),
         fields |-> randint(NthRaw(s, 3 * (k - 1) + 3), 100, 799),
         names |-> 0]]

\* generator.generate_logs(count) driven by the process-wide streams
StreamLogs(g, clock, s, f, count) ==
    LET n == IF count < 0 THEN 0 ELSE count
        r == IF g.kind = "pos"
             THEN pos_generate_logs(g, clock, count, PosStreamDraws(s, n))
             ELSE generate_logs(g, clock, count, BaseStreamDraws(g.kind, s, f, n))
    IN  [lines |-> r.lines, g |-> r.g,
         rng |-> Advance(s, n * 3 + (IF g.kind = "auditd" THEN n * 2 ELSE 0)),
         faker |-> Advance(f, n * FakerDraws(g.kind))]

----------------------------------------------------------------------------
(* The process: wall clock, streams, instances *)

\* history of an instance: the streams and the instance right after its
\* constructor, the wall clock at each of its generate calls, and the count
\* argument of its generate_logs call
NoHist == [rng |-> 0, faker |-> 0, g0 |-> NoGen, clocks |-> <<>>,
           called |-> FALSE, count |-> 0]

Now0 == DateTime(NowSec0, 0)

NoCall == [op |-> "none"]

ElapsedMs == (now.sec - NowSec0) * 1000 + now.ms

ProcInit ==
    /\ now = Now0
    /\ rng \in 0..(RngMod - 1)
    /\ fakerRng \in 0..(RngMod - 1)
    /\ gens = [i \in Inst |-> NoGen]
    /\ out = [i \in Inst |-> <<>>]
    /\ hist = [i \in Inst |-> NoHist]
    /\ call = NoCall

\* time passes
Tick ==
    /\ ElapsedMs < MaxTicks * TickMs
    /\ now' = MinusMs(now, 0 - TickMs)
    /\ UNCHANGED <<rng, fakerRng, gens, out, hist, call>>

\* i = <Kind>Generator(seed)
Construct(i, kind, seed) ==
    /\ gens[i] = NoGen
    /\ LET s1 == BaseInit(seed, now, rng, fakerRng).rng
           r == __init__(kind, seed, now, rng, fakerRng, randint(Raw(s1), 100, 10000))
       IN  /\ gens' = [gens EXCEPT ![i] = r.g]
           /\ rng' = r.rng
           /\ fakerRng' = r.faker
           /\ hist' = [hist EXCEPT ![i] = [rng |-> r.rng, faker |-> r.faker,
                                           g0 |-> r.g, clocks |-> <<>>,
                                           called |-> FALSE, count |-> 0]]
    /\ UNCHANGED <<now, out, call>>

\* i.generate_log()
GenerateOne(i) ==
    /\ gens[i] # NoGen
    /\ Len(out[i]) < MaxCalls
    /\ LET r == StreamLog(gens[i], now, rng, fakerRng)
       IN  /\ out' = [out EXCEPT ![i] = Append(@, r.line)]
           /\ gens' = [gens EXCEPT ![i] = r.g]
           /\ rng' = r.rng
           /\ fakerRng' = r.faker
    /\ hist' = [hist EXCEPT ![i].clocks = Append(@, now)]
    /\ UNCHANGED <<now, call>>

ProcNext ==
    \/ \E i \in Inst, kind \in Kinds, seed \in Seeds : Construct(i, kind, seed)
    \/ \E i \in Inst : GenerateOne(i)

\* one process, two instances constructed and driven in any interleaving
Spec == ProcInit /\ [][ProcNext]_vars

----------------------------------------------------------------------------
(* Two constructions one after the other, each followed by generate_logs *)

Counts == (0 - 1)..MaxCount

\* i.generate_logs(count)
GenerateMany(i, count) ==
    /\ gens[i] # NoGen
    /\ ~hist[i].called
    /\ LET r == StreamLogs(gens[i], now, rng, fakerRng, count)
       IN  /\ out' = [out EXCEPT ![i] = r.lines]
           /\ gens' = [gens EXCEPT ![i] = r.g]
           /\ rng' = r.rng
           /\ fakerRng' = r.faker
    /\ hist' = [hist EXCEPT ![i].called = TRUE, ![i].count = count,
                            ![i].clocks = <<now>>]
    /\ UNCHANGED <<now, call>>

\* the second construction starts when the first instance's call has returned,
\* and is of the same generator type
SeqConstruct(i, kind, seed) ==
    /\ i = "B" => (hist["A"].called /\ kind = gens["A"].kind)
    /\ Construct(i, kind, seed)

SeqNext ==
    \/ Tick
    \/ \E i \in Inst, kind \in Kinds, seed \in Seeds : SeqConstruct(i, kind, seed)
    \/ \E i \in Inst, count \in Counts : GenerateMany(i, count)

SpecSeq == ProcInit /\ [][SeqNext]_vars

----------------------------------------------------------------------------
(* One instance driven with every value its draws can take *)

SeqToSet(seq) == {seq[k] : k \in 1..Len(seq)}

\* the values one generate_log call of a `kind` generator can draw
RangeDraws(kind) ==
    [event : SeqToSet(EventTypes(kind)),
     seconds_past : IF kind = "pos" THEN RandintSamples(0, 3600)
                    ELSE RandintSamples(0, max_days_past * 24 * 3600),
     millisec : IF kind = "auditd" THEN RandintSamples(0, 999) ELSE {0},
     inc : IF kind = "auditd" THEN RandintSamples(1, 10) ELSE {0},
     fields : IF kind = "pos" THEN RandintSamples(100, 799) ELSE {0},
     names : {0}]

GenInit ==
    /\ now = Now0
    /\ rng = 0
    /\ fakerRng = 0
    /\ gens = [i \in Inst |-> NoGen]
    /\ out = [i \in Inst |-> <<>>]
    /\ hist = [i \in Inst |-> NoHist]
    /\ call = NoCall

\* A = <Kind>Generator()
GenConstruct(kind) ==
    /\ gens["A"] = NoGen
    /\ \E seq0 \in RandintSamples(100, 10000) :
          LET r == __init__(kind, None, now, rng, fakerRng, seq0)
          IN  /\ gens' = [gens EXCEPT !["A"] = r.g]
              /\ hist' = [hist EXCEPT !["A"].g0 = r.g]
    /\ UNCHANGED <<now, rng, fakerRng, out, call>>

\* A.generate_log()
GenOne ==
    /\ gens["A"] # NoGen
    /\ Len(out["A"]) < MaxCalls
    /\ \E d \in RangeDraws(gens["A"].kind) :
          LET r == generate_log(gens["A"], now, d)
          IN  /\ out' = [out EXCEPT !["A"] = Append(@, r.line)]
              /\ gens' = [gens EXCEPT !["A"] = r.g]
    /\ UNCHANGED <<now, rng, fakerRng, hist, call>>

GenNext ==
    \/ Tick
    \/ \E kind \in Kinds : GenConstruct(kind)
    \/ GenOne

SpecGen == GenInit /\ [][GenNext]_vars

----------------------------------------------------------------------------
(* CEF text. Text is a sequence of code points.                             *)

\* '|' and '\'
Pipe == 124
Backslash == 92

\* str.replace(old, new) for a one-character old
RECURSIVE replace(_, _, _)
replace(s, old, new) ==
    IF s = <<>> THEN <<>>
    ELSE (IF Head(s) = old THEN new ELSE <<Head(s)>>) \o replace(Tail(s), old, new)

\* sep.join(parts)
RECURSIVE join(_, _)
join(sep, parts) ==
    IF parts = <<>> THEN <<>>
    ELSE IF Len(parts) = 1 THEN parts[1]
    ELSE parts[1] \o sep \o join(sep, Tail(parts))

\* the escaping with the two replacements in the other order
escaped_value_pipe_first(value) ==
    replace(replace(value, Pipe, <<Backslash, Pipe>>),
            Backslash, <<Backslash, Backslash>>)

\* escaped_value of _format_cef: value.replace('\\', '\\\\').replace('|', '\\|')
escaped_value(value) ==
    replace(replace(value, Backslash, <<Backslash, Backslash>>),
            Pipe, <<Backslash, Pipe>>)

\* _format_cef joining its parts without the version
_format_cef_7(vendor, product, version, event_class_id, name, severity, extensions) ==
    LET ext_parts == [k \in 1..Len(extensions) |->
                         extensions[k][1] \o <<61>> \o escaped_value(extensions[k][2])]
        extensions_str == join(<<32>>, ext_parts)
        cef_parts == << <<67, 69, 70, 58>> \o Decimal(0), vendor, product,
                        event_class_id, name, Decimal(severity), extensions_str >>
    IN  join(<<Pipe>>, cef_parts)

\* CEFFirewallGenerator._format_cef; extensions is the dict as its items in
\* insertion order, each value already the text str(value) gives
_format_cef(vendor, product, version, event_class_id, name, severity, extensions) ==
    LET ext_parts == [k \in 1..Len(extensions) |->
                         extensions[k][1] \o <<61>> \o escaped_value(extensions[k][2])]
        extensions_str == join(<<32>>, ext_parts)
        cef_parts == << <<67, 69, 70, 58>> \o Decimal(0), vendor, product, version,
                        event_class_id, name, Decimal(severity), extensions_str >>
    IN  join(<<Pipe>>, cef_parts)

----------------------------------------------------------------------------
(* CEFFirewallGenerator: its tables and its three event generators          *)

\* self.vendors: 'Palo Alto Networks' ('PAN-OS'; '9.0.0', '9.1.0', '10.0.0',
\* '10.1.0'), 'Cisco' ('ASA'; '9.8', '9.12', '9.14'), 'Fortinet' ('FortiGate';
\* '6.0.0', '6.2.0', '6.4.0', '7.0.0'), 'Check Point' ('VPN-1 & FireWall-1';
\* 'R80.40', 'R81', 'R81.10'), 'pfSense' ('pfSense'; '2.5.0', '2.6.0')
vendors ==
    << [vendor |-> <<80, 97, 108, 111, 32, 65, 108, 116, 111, 32, 78, 101,
          116, 119, 111, 114, 107, 115>>,
        product |-> <<80, 65, 78, 45, 79, 83>>,
        versions |-> <<<<57, 46, 48, 46, 48>>, <<57, 46, 49, 46, 48>>,
                       <<49, 48, 46, 48, 46, 48>>, <<49, 48, 46, 49, 46,
                             48>>>>],
       [vendor |-> <<67, 105, 115, 99, 111>>,
        product |-> <<65, 83, 65>>,
        versions |-> <<<<57, 46, 56>>, <<57, 46, 49, 50>>, <<57, 46, 49,
              52>>>>],
       [vendor |-> <<70, 111, 114, 116, 105, 110, 101, 116>>,
        product |-> <<70, 111, 114, 116, 105, 71, 97, 116, 101>>,
        versions |-> <<<<54, 46, 48, 46, 48>>, <<54, 46, 50, 46, 48>>,
                       <<54, 46, 52, 46, 48>>, <<55, 46, 48, 46, 48>>>>],
       [vendor |-> <<67, 104, 101, 99, 107, 32, 80, 111, 105, 110, 116>>,
        product |-> <<86, 80, 78, 45, 49, 32, 38, 32, 70, 105, 114, 101, 87,
              97, 108, 108, 45, 49>>,
        versions |-> <<<<82, 56, 48, 46, 52, 48>>, <<82, 56, 49>>,
                       <<82, 56, 49, 46, 49, 48>>>>],
       [vendor |-> <<112, 102, 83, 101, 110, 115, 101>>,
        product |-> <<112, 102, 83, 101, 110, 115, 101>>,
        versions |-> <<<<50, 46, 53, 46, 48>>, <<50, 46, 54, 46, 48>>>>] >>

\* the keys of self.protocols
protocols ==
    << \* 'TCP'
       <<84, 67, 80>>,
       \* 'UDP'
       <<85, 68, 80>>,
       \* 'ICMP'
       <<73, 67, 77, 80>>,
       \* 'GRE'
       <<71, 82, 69>>,
       \* 'ESP'
       <<69, 83, 80>> >>

\* the values of self.services, port and protocol (1 TCP, 2 UDP), in the
\* order of the table: http, https, ssh, telnet, smtp, dns, dhcp, tftp, pop3,
\* imap, snmp, ldap, smb, mysql, rdp, postgresql, mongodb, redis
services ==
    << <<80, 1>>, <<443, 1>>, <<22, 1>>, <<23, 1>>, <<25, 1>>, <<53, 2>>,
       <<67, 2>>, <<69, 2>>, <<110, 1>>, <<143, 1>>, <<161, 2>>, <<389, 1>>,
       <<445, 1>>, <<3306, 1>>, <<3389, 1>>, <<5432, 1>>, <<27017, 1>>,
       <<6379, 1>> >>

threat_categories ==
    << \* 'malware'
       <<109, 97, 108, 119, 97, 114, 101>>,
       \* 'spyware'
       <<115, 112, 121, 119, 97, 114, 101>>,
       \* 'vulnerability'
       <<118, 117, 108, 110, 101, 114, 97, 98, 105, 108, 105, 116, 121>>,
       \* 'virus'
       <<118, 105, 114, 117, 115>>,
       \* 'wildfire'
       <<119, 105, 108, 100, 102, 105, 114, 101>>,
       \* 'url-filtering'
       <<117, 114, 108, 45, 102, 105, 108, 116, 101, 114, 105, 110, 103>>,
       \* 'data-filtering'
       <<100, 97, 116, 97, 45, 102, 105, 108, 116, 101, 114, 105, 110, 103>>,
       \* 'file-blocking'
       <<102, 105, 108, 101, 45, 98, 108, 111, 99, 107, 105, 110, 103>>,
       \* 'scan'
       <<115, 99, 97, 110>>,
       \* 'flood'
       <<102, 108, 111, 111, 100>> >>

actions_allow ==
    << \* 'allowed'
       <<97, 108, 108, 111, 119, 101, 100>>,
       \* 'permit'
       <<112, 101, 114, 109, 105, 116>>,
       \* 'accept'
       <<97, 99, 99, 101, 112, 116>> >>

actions_deny ==
    << \* 'denied'
       <<100, 101, 110, 105, 101, 100>>,
       \* 'drop'
       <<100, 114, 111, 112>>,
       \* 'reject'
       <<114, 101, 106, 101, 99, 116>>,
       \* 'block'
       <<98, 108, 111, 99, 107>> >>

\* the acts of a threat event: self.actions_deny + ['alert', 'reset-both']
threat_actions ==
    actions_deny \o
    << \* 'alert'
       <<97, 108, 101, 114, 116>>,
       \* 'reset-both'
       <<114, 101, 115, 101, 116, 45, 98, 111, 116, 104>> >>

apps ==
    << \* 'web-browsing'
       <<119, 101, 98, 45, 98, 114, 111, 119, 115, 105, 110, 103>>,
       \* 'ssl'
       <<115, 115, 108>>,
       \* 'dns'
       <<100, 110, 115>>,
       \* 'ssh'
       <<115, 115, 104>>,
       \* 'ftp'
       <<102, 116, 112>>,
       \* 'smtp'
       <<115, 109, 116, 112>>,
       \* 'http'
       <<104, 116, 116, 112>>,
       \* 'smtp'
       <<115, 109, 116, 112>>,
       \* 'ms-rdp'
       <<109, 115, 45, 114, 100, 112>> >>

zones ==
    << \* 'trust'
       <<116, 114, 117, 115, 116>>,
       \* 'untrust'
       <<117, 110, 116, 114, 117, 115, 116>>,
       \* 'dmz'
       <<100, 109, 122>>,
       \* 'internal'
       <<105, 110, 116, 101, 114, 110, 97, 108>>,
       \* 'external'
       <<101, 120, 116, 101, 114, 110, 97, 108>>,
       \* 'vpn'
       <<118, 112, 110>> >>

threat_names ==
    << \* 'Generic.Malware.Detected'
       <<71, 101, 110, 101, 114, 105, 99, 46, 77, 97, 108, 119, 97, 114, 101,
       46, 68, 101, 116, 101, 99, 116, 101, 100>>,
       \* 'Trojan.Win32.Agent'
       <<84, 114, 111, 106, 97, 110, 46, 87, 105, 110, 51, 50, 46, 65, 103,
       101, 110, 116>>,
       \* 'Exploit.CVE-2021-44228'
       <<69, 120, 112, 108, 111, 105, 116, 46, 67, 86, 69, 45, 50, 48, 50, 49,
       45, 52, 52, 50, 50, 56>>,
       \* 'Malicious.URL.Detected'
       <<77, 97, 108, 105, 99, 105, 111, 117, 115, 46, 85, 82, 76, 46, 68,
       101, 116, 101, 99, 116, 101, 100>>,
       \* 'Suspicious.Network.Traffic'
       <<83, 117, 115, 112, 105, 99, 105, 111, 117, 115, 46, 78, 101, 116,
       119, 111, 114, 107, 46, 84, 114, 97, 102, 102, 105, 99>>,
       \* 'SQL.Injection.Attempt'
       <<83, 81, 76, 46, 73, 110, 106, 101, 99, 116, 105, 111, 110, 46, 65,
       116, 116, 101, 109, 112, 116>>,
       \* 'XSS.Attack.Detected'
       <<88, 83, 83, 46, 65, 116, 116, 97, 99, 107, 46, 68, 101, 116, 101, 99,
       116, 101, 100>>,
       \* 'Brute.Force.Attack'
       <<66, 114, 117, 116, 101, 46, 70, 111, 114, 99, 101, 46, 65, 116, 116,
       97, 99, 107>>,
       \* 'Port.Scan.Detected'
       <<80, 111, 114, 116, 46, 83, 99, 97, 110, 46, 68, 101, 116, 101, 99,
       116, 101, 100>>,
       \* 'DDoS.Attack.Detected'
       <<68, 68, 111, 83, 46, 65, 116, 116, 97, 99, 107, 46, 68, 101, 116,
       101, 99, 116, 101, 100>> >>

malicious_urls ==
    << \* 'http://malicious-site.com/payload.exe'
       <<104, 116, 116, 112, 58, 47, 47, 109, 97, 108, 105, 99, 105, 111, 117,
       115, 45, 115, 105, 116, 101, 46, 99, 111, 109, 47, 112, 97, 121, 108,
       111, 97, 100, 46, 101, 120, 101>>,
       \* 'http://phishing-site.net/login.php'
       <<104, 116, 116, 112, 58, 47, 47, 112, 104, 105, 115, 104, 105, 110,
       103, 45, 115, 105, 116, 101, 46, 110, 101, 116, 47, 108, 111, 103, 105,
       110, 46, 112, 104, 112>>,
       \* 'http://c2-server.org/beacon'
       <<104, 116, 116, 112, 58, 47, 47, 99, 50, 45, 115, 101, 114, 118, 101,
       114, 46, 111, 114, 103, 47, 98, 101, 97, 99, 111, 110>>,
       \* 'http://exploit-kit.ru/landing'
       <<104, 116, 116, 112, 58, 47, 47, 101, 120, 112, 108, 111, 105, 116,
       45, 107, 105, 116, 46, 114, 117, 47, 108, 97, 110, 100, 105, 110, 103>>
       >>

files ==
    << \* 'payload.exe'
       <<112, 97, 121, 108, 111, 97, 100, 46, 101, 120, 101>>,
       \* 'malware.dll'
       <<109, 97, 108, 119, 97, 114, 101, 46, 100, 108, 108>>,
       \* 'trojan.js'
       <<116, 114, 111, 106, 97, 110, 46, 106, 115>>,
       \* 'backdoor.sh'
       <<98, 97, 99, 107, 100, 111, 111, 114, 46, 115, 104>> >>

\* the event ids of system_events
system_event_ids ==
    << \* 'admin-login'
       <<97, 100, 109, 105, 110, 45, 108, 111, 103, 105, 110>>,
       \* 'admin-logout'
       <<97, 100, 109, 105, 110, 45, 108, 111, 103, 111, 117, 116>>,
       \* 'config-change'
       <<99, 111, 110, 102, 105, 103, 45, 99, 104, 97, 110, 103, 101>>,
       \* 'system-start'
       <<115, 121, 115, 116, 101, 109, 45, 115, 116, 97, 114, 116>>,
       \* 'system-shutdown'
       <<115, 121, 115, 116, 101, 109, 45, 115, 104, 117, 116, 100, 111, 119,
       110>>,
       \* 'ha-failover'
       <<104, 97, 45, 102, 97, 105, 108, 111, 118, 101, 114>>,
       \* 'license-expire'
       <<108, 105, 99, 101, 110, 115, 101, 45, 101, 120, 112, 105, 114, 101>>,
       \* 'disk-space-low'
       <<100, 105, 115, 107, 45, 115, 112, 97, 99, 101, 45, 108, 111, 119>> >>

\* the names of system_events
system_event_names ==
    << \* 'Administrator login'
       <<65, 100, 109, 105, 110, 105, 115, 116, 114, 97, 116, 111, 114, 32,
       108, 111, 103, 105, 110>>,
       \* 'Administrator logout'
       <<65, 100, 109, 105, 110, 105, 115, 116, 114, 97, 116, 111, 114, 32,
       108, 111, 103, 111, 117, 116>>,
       \* 'Configuration changed'
       <<67, 111, 110, 102, 105, 103, 117, 114, 97, 116, 105, 111, 110, 32,
       99, 104, 97, 110, 103, 101, 100>>,
       \* 'System started'
       <<83, 121, 115, 116, 101, 109, 32, 115, 116, 97, 114, 116, 101, 100>>,
       \* 'System shutdown'
       <<83, 121, 115, 116, 101, 109, 32, 115, 104, 117, 116, 100, 111, 119,
       110>>,
       \* 'HA failover occurred'
       <<72, 65, 32, 102, 97, 105, 108, 111, 118, 101, 114, 32, 111, 99, 99,
       117, 114, 114, 101, 100>>,
       \* 'License expiring soon'
       <<76, 105, 99, 101, 110, 115, 101, 32, 101, 120, 112, 105, 114, 105,
       110, 103, 32, 115, 111, 111, 110>>,
       \* 'Disk space low'
       <<68, 105, 115, 107, 32, 115, 112, 97, 99, 101, 32, 108, 111, 119>> >>

\* the severities of system_events
system_event_severities == <<5, 3, 6, 4, 4, 8, 7, 7>>

susers ==
    << \* 'admin'
       <<97, 100, 109, 105, 110>>,
       \* 'firewall-admin'
       <<102, 105, 114, 101, 119, 97, 108, 108, 45, 97, 100, 109, 105, 110>>,
       \* 'security-admin'
       <<115, 101, 99, 117, 114, 105, 116, 121, 45, 97, 100, 109, 105, 110>>
       >>

\* the messages of a system event, by event id; days and percent the two
\* numbers drawn for 'license-expire' and 'disk-space-low'
messages(days, percent) ==
    << <<65, 100, 109, 105, 110, 105, 115, 116, 114, 97, 116, 111, 114, 32,
          108, 111, 103, 103, 101, 100, 32, 105, 110, 32, 102, 114, 111, 109,
          32, 109, 97, 110, 97, 103, 101, 109, 101, 110, 116, 32, 105, 110,
          116, 101, 114, 102, 97, 99, 101>>,
       <<65, 100, 109, 105, 110, 105, 115, 116, 114, 97, 116, 111, 114, 32,
             108, 111, 103, 103, 101, 100, 32, 111, 117, 116>>,
       <<83, 101, 99, 117, 114, 105, 116, 121, 32, 112, 111, 108, 105, 99,
             121, 32, 109, 111, 100, 105, 102, 105, 101, 100>>,
       <<70, 105, 114, 101, 119, 97, 108, 108, 32, 115, 121, 115, 116, 101,
             109, 32, 115, 116, 97, 114, 116, 101, 100, 32, 115, 117, 99, 99,
             101, 115, 115, 102, 117, 108, 108, 121>>,
       <<70, 105, 114, 101, 119, 97, 108, 108, 32, 115, 121, 115, 116, 101,
             109, 32, 115, 104, 117, 116, 116, 105, 110, 103, 32, 100, 111,
             119, 110>>,
       <<72, 65, 32, 102, 97, 105, 108, 111, 118, 101, 114, 32, 116, 111, 32,
             115, 101, 99, 111, 110, 100, 97, 114, 121, 32, 100, 101, 118,
             105, 99, 101>>,
       <<76, 105, 99, 101, 110, 115, 101, 32, 119, 105, 108, 108, 32, 101,
             120, 112, 105, 114, 101, 32, 105, 110,
             32>> \o Decimal(days) \o <<32, 100, 97, 121, 115>>,
       <<68, 105, 115, 107, 32, 115, 112, 97, 99, 101, 32, 97, 116,
             32>> \o Decimal(percent) \o <<37, 32, 99, 97, 112, 97, 99, 105,
             116, 121>> >>

\* the abbreviated month names %b prints
MonthAbbr ==
    << \* 'Jan'
       <<74, 97, 110>>,
       \* 'Feb'
       <<70, 101, 98>>,
       \* 'Mar'
       <<77, 97, 114>>,
       \* 'Apr'
       <<65, 112, 114>>,
       \* 'May'
       <<77, 97, 121>>,
       \* 'Jun'
       <<74, 117, 110>>,
       \* 'Jul'
       <<74, 117, 108>>,
       \* 'Aug'
       <<65, 117, 103>>,
       \* 'Sep'
       <<83, 101, 112>>,
       \* 'Oct'
       <<79, 99, 116>>,
       \* 'Nov'
       <<78, 111, 118>>,
       \* 'Dec'
       <<68, 101, 99>> >>

\* dt.strftime("%b %d %Y %H:%M:%S")
CefTime(dt) ==
    LET c == CivilFromDays(dt.sec \div 86400)
        t == dt.sec % 86400
    IN  MonthAbbr[c.month] \o <<32>> \o Pad(c.day,
          2) \o <<32>> \o Decimal(c.year)
        \o <<32>> \o Pad(t \div 3600, 2) \o <<58>> \o Pad((t % 3600) \div 60,
              2)
        \o <<58>> \o Pad(t % 60, 2)

\* the dotted text of an address
IpText(ip) ==
    Decimal(ip[1]) \o <<46>> \o Decimal(ip[2]) \o <<46>> \o Decimal(ip[3])
    \o <<46>> \o Decimal(ip[4])

\* a < b for addresses, octet by octet
IpLess(a, b) ==
    \E k \in 1..4 : a[k] < b[k] /\ \A j \in 1..(k - 1) : a[j] = b[j]

\* the model draws the lowest (hi false) or the highest (hi true) of the
\* addresses generate_ip_address(private) can return
IpSamples ==
    [private \in BOOLEAN |-> [hi \in BOOLEAN |->
        LET S == generate_ip_address(private)
        IN  CHOOSE ip \in S :
               \A o \in S : IF hi THEN ~IpLess(ip, o) ELSE ~IpLess(o, ip)]]

\* random.choice(seq): the model draws the first (hi false) or the last
choice(seq, hi) == IF hi THEN seq[Len(seq)] ELSE seq[1]

common_ports ==
    <<22, 23, 25, 53, 80, 110, 143, 443, 445, 3306, 3389, 5432, 8080, 8443>>

\* BaseLogGenerator.generate_port(well_known), the low or the high draw
generate_port(well_known, hi) ==
    IF well_known THEN choice(common_ports, hi)
    ELSE choice(<<1024, 65535>>, hi)

\* BaseLogGenerator.generate_hostname(prefix), prefix a text
generate_hostname(prefix, hi) ==
    prefix \o <<45>> \o Decimal(choice(<<1, 100>>, hi))

\* sub in text
Contains(sub, text) ==
    \E i \in 1..(Len(text) - Len(sub) + 1) : SubSeq(text, i,
          i + Len(sub) - 1) = sub

\* the three header fields drawn first by every event generator
VendorDraw(d) ==
    [vendor |-> vendors[d.vendor].vendor,
          product |-> vendors[d.vendor].product,
     version |-> vendors[d.vendor].versions[d.version]]

\* CEFFirewallGenerator._generate_traffic_event: its extensions
TrafficExtensions(g, d) ==
    LET action == IF d.allowed THEN choice(actions_allow, d.hi)
                  ELSE choice(actions_deny, d.hi)
        src == IpSamples[d.src_internal][d.hi]
        dst == IF d.src_internal /\ d.hi THEN IpSamples[FALSE][d.hi]
               ELSE IpSamples[TRUE][d.hi]
        ported == d.proto \in {1, 2}
        service == choice(services, d.src_internal)
        dpt == IF ~ported THEN 0
               ELSE IF d.hi
                    THEN (IF service[2] = d.proto THEN service[1]
                          ELSE generate_port(TRUE, d.hi))
               ELSE generate_port(d.src_internal, d.hi)
        spt == IF ported THEN generate_port(FALSE, d.hi) ELSE 0
        out_bytes == choice(<<100, 1000000>>, d.hi)
        in_bytes == choice(<<100, 1000000>>, d.hi)
        timestamp == CefTime(generate_datetime(g, d.seconds_past))
    IN  << <<<<114, 116>>, timestamp>>,
           <<<<115, 114, 99>>, IpText(src)>>,
           <<<<100, 115, 116>>, IpText(dst)>>,
           <<<<115, 112, 116>>, Decimal(spt)>>,
           <<<<100, 112, 116>>, Decimal(dpt)>>,
           <<<<112, 114, 111, 116, 111>>, protocols[d.proto]>>,
           <<<<97, 99, 116>>, action>>,
           <<<<111, 117, 116>>, Decimal(out_bytes)>>,
           <<<<105, 110>>, Decimal(in_bytes)>>,
           <<<<100, 101, 118, 105, 99, 101, 68, 105, 114, 101, 99, 116, 105,
                 111, 110>>, Decimal(choice(<<0, 1>>, d.hi))>>,
           <<<<99, 110, 49>>, Decimal(choice(<<1, 999999>>, d.hi))>>,
           <<<<99, 110, 49, 76, 97, 98, 101, 108>>, <<67, 111, 110, 110, 101,
                 99, 116, 105, 111, 110, 73, 68>>>> >>
        \o (IF d.app THEN << <<<<97, 112, 112>>, choice(apps,
              d.hi)>> >> ELSE <<>>)
        \o (IF d.zones
            THEN << <<<<100, 101, 118, 105, 99, 101, 73, 110, 98, 111, 117,
                  110, 100, 73, 110, 116, 101, 114, 102, 97, 99, 101>>,
                  choice(zones, d.hi)>>,
                    <<<<100, 101, 118, 105, 99, 101, 79, 117, 116, 98, 111,
                          117, 110, 100, 73, 110, 116, 101, 114, 102, 97, 99,
                          101>>, choice(zones, ~d.hi)>> >>
            ELSE <<>>)

\* _generate_traffic_event drawing the severity of allowed traffic for denied
\* traffic too
_generate_traffic_event_low_severity(g, d) ==
    LET v == VendorDraw(d)
    IN  _format_cef(v.vendor, v.product, v.version, <<84, 82, 65, 70, 70, 73,
          67>>,
                    IF d.allowed THEN <<116, 114, 97, 102, 102, 105, 99, 45,
                          97, 108, 108, 111, 119, 101, 100>> ELSE <<116, 114,
                          97, 102, 102, 105, 99, 45, 100, 101, 110, 105, 101,
                          100>>,
                    choice(<<1, 2, 3>>, d.hi), TrafficExtensions(g, d))

\* _generate_traffic_event leaving deviceOutboundInterface out
_generate_traffic_event_inbound_only(g, d) ==
    LET v == VendorDraw(d)
    IN  _format_cef(v.vendor, v.product, v.version, <<84, 82, 65, 70, 70, 73,
          67>>,
                    IF d.allowed THEN <<116, 114, 97, 102, 102, 105, 99, 45,
                          97, 108, 108, 111, 119, 101, 100>> ELSE <<116, 114,
                          97, 102, 102, 105, 99, 45, 100, 101, 110, 105, 101,
                          100>>,
                    IF d.allowed THEN choice(<<1, 2, 3>>, d.hi)
                    ELSE choice(<<5, 6, 7>>, d.hi),
                    SelectSeq(TrafficExtensions(g, d),
                              LAMBDA e : e[1] # <<100, 101, 118, 105, 99,
                                    101, 79, 117, 116, 98, 111, 117, 110,
                                    100, 73, 110, 116, 101, 114, 102, 97, 99,
                                    101>>))

\* CEFFirewallGenerator._generate_traffic_event
_generate_traffic_event(g, d) ==
    LET v == VendorDraw(d)
        severity == IF d.allowed THEN choice(<<1, 2, 3>>, d.hi)
                    ELSE choice(<<5, 6, 7>>, d.hi)
        name == IF d.allowed THEN <<116, 114, 97, 102, 102, 105, 99, 45, 97,
              108, 108, 111, 119, 101, 100>>
                ELSE <<116, 114, 97, 102, 102, 105, 99, 45, 100, 101, 110,
                      105, 101, 100>>
    IN  _format_cef(v.vendor, v.product, v.version, <<84, 82, 65, 70, 70, 73,
          67>>, name, severity,
                    TrafficExtensions(g, d))

\* CEFFirewallGenerator._generate_threat_event: its extensions
ThreatExtensions(g, d) ==
    LET threat_category == threat_categories[d.category]
        threat_id == Decimal(choice(<<10000, 99999>>, d.hi))
        ported == d.proto \in {1, 2}
        dpt == IF ported THEN generate_port(TRUE, d.hi) ELSE 0
        spt == IF ported THEN generate_port(FALSE, d.hi) ELSE 0
        timestamp == CefTime(generate_datetime(g, d.seconds_past))
    IN  << <<<<114, 116>>, timestamp>>,
           <<<<115, 114, 99>>, IpText(IpSamples[FALSE][d.hi])>>,
           <<<<100, 115, 116>>, IpText(IpSamples[TRUE][d.hi])>>,
           <<<<115, 112, 116>>, Decimal(spt)>>,
           <<<<100, 112, 116>>, Decimal(dpt)>>,
           <<<<112, 114, 111, 116, 111>>, protocols[d.proto]>>,
           <<<<97, 99, 116>>, choice(threat_actions, d.hi)>>,
           <<<<99, 97, 116>>, threat_category>>,
           <<<<99, 115, 49>>, choice(threat_names, d.hi)>>,
           <<<<99, 115, 49, 76, 97, 98, 101, 108>>, <<84, 104, 114, 101, 97,
                 116, 78, 97, 109, 101>>>>,
           <<<<99, 110, 49>>, threat_id>>,
           <<<<99, 110, 49, 76, 97, 98, 101, 108>>, <<84, 104, 114, 101, 97,
                 116, 73, 68>>>>,
           <<<<100, 101, 118, 105, 99, 101, 68, 105, 114, 101, 99, 116, 105,
                 111, 110>>, <<48>>>> >>
        \o (IF Contains(<<117, 114, 108>>, threat_category) \/ d.url
            THEN << <<<<114, 101, 113, 117, 101, 115, 116>>,
                  choice(malicious_urls, d.hi)>> >>
            ELSE <<>>)
        \o (IF Contains(<<109, 97, 108, 119, 97, 114, 101>>, threat_category)
               \/ Contains(<<118, 105, 114, 117, 115>>, threat_category)
            THEN << <<<<102, 110, 97, 109, 101>>, choice(files, d.hi)>>,
                    <<<<102, 105, 108, 101, 72, 97, 115, 104>>,
                      [k \in 1..64 |-> choice(<<48, 49, 50, 51, 52, 53, 54,
                            55, 56, 57, 97, 98, 99, 100, 101, 102>>,
                            d.hi)]>> >>
            ELSE <<>>)

\* _generate_threat_event leaving fileHash out
_generate_threat_event_no_hash(g, d) ==
    LET v == VendorDraw(d)
    IN  _format_cef(v.vendor, v.product, v.version, <<84, 72, 82, 69, 65,
          84>>,
                    <<116, 104, 114, 101, 97, 116,
                          45>> \o threat_categories[d.category],
                    choice(<<7, 10>>, d.hi),
                    SelectSeq(ThreatExtensions(g, d),
                          LAMBDA e : e[1] # <<102, 105, 108, 101, 72, 97,
                          115, 104>>))

\* CEFFirewallGenerator._generate_threat_event
_generate_threat_event(g, d) ==
    LET v == VendorDraw(d)
        name == <<116, 104, 114, 101, 97, 116,
              45>> \o threat_categories[d.category]
        severity == choice(<<7, 10>>, d.hi)
    IN  _format_cef(v.vendor, v.product, v.version, <<84, 72, 82, 69, 65,
          84>>, name, severity,
                    ThreatExtensions(g, d))

\* CEFFirewallGenerator._generate_system_event: its extensions
SystemExtensions(g, d) ==
    LET timestamp == CefTime(generate_datetime(g, d.seconds_past))
        days == choice(<<1, 30>>, d.hi)
        percent == choice(<<85, 95>>, d.hi)
    IN  << <<<<114, 116>>, timestamp>>,
           <<<<100, 118, 99>>, IpText(IpSamples[TRUE][d.hi])>>,
           <<<<100, 118, 99, 104, 111, 115, 116>>, generate_hostname(<<102,
                 119>>, d.hi)>> >>
        \o (IF d.event \in 1..3
            THEN << <<<<115, 117, 115, 101, 114>>, choice(susers, d.hi)>>,
                    <<<<115, 114, 99>>, IpText(IpSamples[TRUE][~d.hi])>> >>
            ELSE <<>>)
        \o << <<<<109, 115, 103>>, messages(days, percent)[d.event]>> >>

\* CEFFirewallGenerator._generate_system_event
_generate_system_event(g, d) ==
    LET v == VendorDraw(d)
    IN  _format_cef(v.vendor, v.product, v.version, <<83, 89, 83, 84, 69,
          77>>,
                    system_event_names[d.event],
                          system_event_severities[d.event],
                    SystemExtensions(g, d))

\* CEFFirewallGenerator.generate_log, d the values drawn: the text of the line
cef_generate_log(g, d) ==
    IF d.event_type = "TRAFFIC" THEN _generate_traffic_event(g, d)
    ELSE IF d.event_type = "THREAT" THEN _generate_threat_event(g, d)
    ELSE _generate_system_event(g, d)

----------------------------------------------------------------------------
(* SyslogGenerator: its users and its seven event generators                *)

\* self.users of SyslogGenerator
syslog_users ==
    << \* 'root'
       <<114, 111, 111, 116>>,
       \* 'admin'
       <<97, 100, 109, 105, 110>>,
       \* 'ubuntu'
       <<117, 98, 117, 110, 116, 117>>,
       \* 'centos'
       <<99, 101, 110, 116, 111, 115>>,
       \* 'deploy'
       <<100, 101, 112, 108, 111, 121>>,
       \* 'ansible'
       <<97, 110, 115, 105, 98, 108, 101>>,
       \* 'jenkins'
       <<106, 101, 110, 107, 105, 110, 115>>,
       \* 'www-data'
       <<119, 119, 119, 45, 100, 97, 116, 97>>,
       \* 'mysql'
       <<109, 121, 115, 113, 108>>,
       \* 'postgres'
       <<112, 111, 115, 116, 103, 114, 101, 115>>,
       \* 'redis'
       <<114, 101, 100, 105, 115>> >>

\* n printed in lower-case hexadecimal, as the format :x prints it
RECURSIVE Hex(_)
Hex(n) ==
    LET digit(k) == IF k < 10 THEN 48 + k ELSE 87 + k
    IN  IF n < 16 THEN <<digit(n)>> ELSE Hex(n \div 16) \o <<digit(n % 16)>>

\* BaseLogGenerator.generate_mac_address, every octet the low or the high draw
generate_mac_address(hi) ==
    LET octet == choice(<<0, 255>>, hi)
        two == IF octet < 16 THEN <<48>> \o Hex(octet) ELSE Hex(octet)
    IN  join(<<58>>, [k \in 1..6 |-> two])

\* generate_timestamp(format_string="%b %d %H:%M:%S") as text
SyslogTime(g, seconds_past) ==
    LET dt == generate_timestamp(g, seconds_past)
        c == CivilFromDays(dt.sec \div 86400)
        t == dt.sec % 86400
    IN  MonthAbbr[c.month] \o <<32>> \o Pad(c.day,
          2) \o <<32>> \o Pad(t \div 3600, 2)
        \o <<58>> \o Pad((t % 3600) \div 60, 2) \o <<58>> \o Pad(t % 60, 2)

\* _format_syslog leaving out the pid and its brackets
_format_syslog_no_pid(timestamp, hostname, process, pid, message) ==
    timestamp \o <<32>> \o hostname \o <<32>> \o process \o <<58,
          32>> \o message

\* SyslogGenerator._format_syslog
_format_syslog(timestamp, hostname, process, pid, message) ==
    timestamp \o <<32>> \o hostname \o <<32>> \o process \o <<91>> \o Decimal(pid)
    \o <<93, 58, 32>> \o message

\* self.generate_hostname(), as every event generator calls it
SyslogHost(d) ==
    LET prefixes == << <<119, 101, 98>>, <<97, 112, 112>>, <<100, 98>>,
          <<109, 97, 105, 108>>, <<100, 110, 115>>, <<102, 119>>,
                       <<112, 114, 111, 120, 121>>, <<100, 99>>, <<102,
                             115>> >>
    IN  generate_hostname(choice(prefixes, d.hi), d.hi)

\* SyslogGenerator._generate_ssh_event; d.sel is the event_type drawn:
\* 1 accepted, 2 failed, 3 disconnect
_generate_ssh_event(g, d) ==
    LET pid == choice(<<1000, 65535>>, d.hi)
        src_ip == IpText(IpSamples[FALSE][d.hi])
        port == Decimal(choice(<<40000, 65000>>, d.hi))
        user == IF d.sel = 1 THEN choice(syslog_users, d.hi)
                ELSE choice(syslog_users \o << <<105, 110, 118, 97, 108, 105,
                      100>>, <<116, 101, 115, 116>>,
                                               <<103, 117, 101, 115, 116>>,
                                                     <<111, 114, 97, 99, 108,
                                                     101>> >>, d.hi)
        message ==
            IF d.sel = 1
            THEN choice(<< <<65, 99, 99, 101, 112, 116, 101, 100, 32, 112,
                  97, 115, 115, 119, 111, 114, 100, 32, 102, 111, 114,
                  32>> \o user \o <<32, 102, 114, 111, 109, 32>>
                           \o src_ip \o <<32, 112, 111, 114, 116,
                                 32>> \o port \o <<32, 115, 115, 104, 50>>,
                           <<65, 99, 99, 101, 112, 116, 101, 100, 32, 112,
                                 117, 98, 108, 105, 99, 107, 101, 121, 32,
                                 102, 111, 114, 32>> \o user \o <<32, 102,
                                 114, 111, 109, 32>>
                           \o src_ip \o <<32, 112, 111, 114, 116, 32>> \o port
                           \o <<32, 115, 115, 104, 50, 58, 32, 82, 83, 65,
                                 32, 83, 72, 65, 50, 53, 54, 58>>
                           \o [k \in 1..43 |-> choice(<<48, 49, 50, 51, 52,
                                 53, 54, 55, 56, 57, 97, 98, 99, 100, 101,
                                 102>>, d.hi)],
                           <<112, 97, 109, 95, 117, 110, 105, 120, 40, 115,
                                 115, 104, 100, 58, 115, 101, 115, 115, 105,
                                 111, 110, 41, 58, 32, 115, 101, 115, 115,
                                 105, 111, 110, 32, 111, 112, 101, 110, 101,
                                 100, 32, 102, 111, 114, 32, 117, 115, 101,
                                 114, 32>>
                           \o user \o <<32, 98, 121, 32, 40, 117, 105, 100,
                                 61, 48, 41>> >>, d.hi)
            ELSE IF d.sel = 2
            THEN choice(<< <<70, 97, 105, 108, 101, 100, 32, 112, 97, 115,
                  115, 119, 111, 114, 100, 32, 102, 111, 114,
                  32>> \o user \o <<32, 102, 114, 111, 109, 32>>
                           \o src_ip \o <<32, 112, 111, 114, 116,
                                 32>> \o port \o <<32, 115, 115, 104, 50>>,
                           <<70, 97, 105, 108, 101, 100, 32, 112, 97, 115,
                                 115, 119, 111, 114, 100, 32, 102, 111, 114,
                                 32, 105, 110, 118, 97, 108, 105, 100, 32,
                                 117, 115, 101, 114, 32>> \o user
                           \o <<32, 102, 114, 111, 109,
                                 32>> \o src_ip \o <<32, 112, 111, 114, 116,
                                 32>> \o port
                           \o <<32, 115, 115, 104, 50>>,
                           <<67, 111, 110, 110, 101, 99, 116, 105, 111, 110,
                                 32, 99, 108, 111, 115, 101, 100, 32, 98,
                                 121, 32, 97, 117, 116, 104, 101, 110, 116,
                                 105, 99, 97, 116, 105, 110, 103, 32, 117,
                                 115, 101, 114, 32>> \o user
                           \o <<32>> \o src_ip \o <<32, 112, 111, 114, 116,
                                 32>> \o port
                           \o <<32, 91, 112, 114, 101, 97, 117, 116, 104,
                                 93>>,
                           <<73, 110, 118, 97, 108, 105, 100, 32, 117, 115,
                                 101, 114, 32>> \o user \o <<32, 102, 114,
                                 111, 109, 32>> \o src_ip
                           \o <<32, 112, 111, 114, 116, 32>> \o port,
                           <<82, 101, 99, 101, 105, 118, 101, 100, 32, 100,
                                 105, 115, 99, 111, 110, 110, 101, 99, 116,
                                 32, 102, 114, 111, 109,
                                 32>> \o src_ip \o <<32, 112, 111, 114, 116,
                                 32>>
                           \o port \o <<58, 49, 49, 58, 32, 66, 121, 101, 32,
                                 66, 121, 101, 32, 91, 112, 114, 101, 97,
                                 117, 116, 104, 93>> >>, d.hi)
            ELSE <<82, 101, 99, 101, 105, 118, 101, 100, 32, 100, 105, 115,
                  99, 111, 110, 110, 101, 99, 116, 32, 102, 114, 111, 109,
                  32>> \o src_ip \o <<32, 112, 111, 114, 116, 32>> \o port
                 \o <<58, 49, 49, 58, 32, 100, 105, 115, 99, 111, 110, 110,
                       101, 99, 116, 101, 100, 32, 98, 121, 32, 117, 115,
                       101, 114>>
    IN  _format_syslog(SyslogTime(g, d.seconds_past), SyslogHost(d), <<115,
          115, 104, 100>>, pid,
                       message)

\* SyslogGenerator._generate_sudo_event; d.sel = 1 is success
_generate_sudo_event(g, d) ==
    LET pid == choice(<<1000, 65535>>, d.hi)
        user == choice(SelectSeq(syslog_users, LAMBDA u : u # <<114, 111,
              111, 116>>), d.hi)
        commands == << <<47, 117, 115, 114, 47, 98, 105, 110, 47, 115, 121,
              115, 116, 101, 109, 99, 116, 108, 32, 114, 101, 115, 116, 97,
              114, 116, 32, 110, 103, 105, 110, 120>>,
                       <<47, 117, 115, 114, 47, 98, 105, 110, 47, 115, 121,
                             115, 116, 101, 109, 99, 116, 108, 32, 115, 116,
                             97, 116, 117, 115, 32, 97, 112, 97, 99, 104,
                             101, 50>>,
                       <<47, 117, 115, 114, 47, 98, 105, 110, 47, 97, 112,
                             116, 32, 117, 112, 100, 97, 116, 101>>, <<47,
                             117, 115, 114, 47, 98, 105, 110, 47, 121, 117,
                             109, 32, 117, 112, 100, 97, 116, 101>>,
                       <<47, 98, 105, 110, 47, 99, 97, 116, 32, 47, 118, 97,
                             114, 47, 108, 111, 103, 47, 115, 121, 115, 108,
                             111, 103>>, <<47, 117, 115, 114, 47, 98, 105,
                             110, 47, 100, 111, 99, 107, 101, 114, 32, 112,
                             115>>,
                       <<47, 117, 115, 114, 47, 98, 105, 110, 47, 100, 111,
                             99, 107, 101, 114, 32, 114, 101, 115, 116, 97,
                             114, 116, 32, 119, 101, 98, 97, 112, 112>>,
                       <<47, 98, 105, 110, 47, 106, 111, 117, 114, 110, 97,
                             108, 99, 116, 108, 32, 45, 117, 32, 115, 115,
                             104, 100>>, <<47, 117, 115, 114, 47, 115, 98,
                             105, 110, 47, 105, 112, 116, 97, 98, 108, 101,
                             115, 32, 45, 76>>,
                       <<47, 117, 115, 114, 47, 98, 105, 110, 47, 118, 105,
                             109, 32, 47, 101, 116, 99, 47, 110, 103, 105,
                             110, 120, 47, 110, 103, 105, 110, 120, 46, 99,
                             111, 110, 102>> >>
        command == choice(commands, d.hi)
        tail == <<84, 84, 89, 61, 112, 116, 115, 47>> \o Decimal(choice(<<0,
              5>>, d.hi))
                \o <<32, 59, 32, 80, 87, 68, 61, 47, 104, 111, 109, 101,
                      47>> \o user \o <<32, 59, 32, 85, 83, 69, 82, 61, 114,
                      111, 111, 116, 32, 59, 32, 67, 79, 77, 77, 65, 78, 68,
                      61>>
                \o command
        message == IF d.sel = 1 THEN user \o <<32, 58, 32>> \o tail
                   ELSE user \o <<32, 58, 32, 99, 111, 109, 109, 97, 110,
                         100, 32, 110, 111, 116, 32, 97, 108, 108, 111, 119,
                         101, 100, 32, 59, 32>> \o tail
    IN  _format_syslog(SyslogTime(g, d.seconds_past), SyslogHost(d), <<115,
          117, 100, 111>>, pid,
                       message)

\* SyslogGenerator._generate_auth_event; d.sel is the process drawn
_generate_auth_event(g, d) ==
    LET pid == choice(<<1000, 65535>>, d.hi)
        user == choice(syslog_users, d.hi)
        message == choice(<< <<112, 97, 109, 95, 117, 110, 105, 120, 40, 99,
              114, 111, 110, 58, 115, 101, 115, 115, 105, 111, 110, 41, 58,
              32, 115, 101, 115, 115, 105, 111, 110, 32, 111, 112, 101, 110,
              101, 100, 32, 102, 111, 114, 32, 117, 115, 101, 114, 32>>
                             \o user \o <<32, 98, 121, 32, 40, 117, 105, 100,
                                   61, 48, 41>>,
                             <<112, 97, 109, 95, 117, 110, 105, 120, 40, 99,
                                   114, 111, 110, 58, 115, 101, 115, 115,
                                   105, 111, 110, 41, 58, 32, 115, 101, 115,
                                   115, 105, 111, 110, 32, 99, 108, 111, 115,
                                   101, 100, 32, 102, 111, 114, 32, 117, 115,
                                   101, 114, 32>>
                             \o user,
                             <<112, 97, 109, 95, 117, 110, 105, 120, 40, 115,
                                   117, 100, 111, 58, 115, 101, 115, 115,
                                   105, 111, 110, 41, 58, 32, 115, 101, 115,
                                   115, 105, 111, 110, 32, 111, 112, 101,
                                   110, 101, 100, 32, 102, 111, 114, 32, 117,
                                   115, 101, 114, 32, 114, 111, 111, 116, 32,
                                   98, 121, 32>>
                             \o user \o <<40, 117, 105, 100, 61, 48, 41>>,
                             <<112, 97, 109, 95, 117, 110, 105, 120, 40, 115,
                                   117, 100, 111, 58, 115, 101, 115, 115,
                                   105, 111, 110, 41, 58, 32, 115, 101, 115,
                                   115, 105, 111, 110, 32, 99, 108, 111, 115,
                                   101, 100, 32, 102, 111, 114, 32, 117, 115,
                                   101, 114, 32, 114, 111, 111, 116>>,
                             <<78, 101, 119, 32, 115, 101, 115, 115, 105,
                                   111, 110, 32>>
                             \o Decimal(choice(<<1, 999>>, d.hi)) \o <<32,
                                   111, 102, 32, 117, 115, 101, 114, 32>>
                             \o user \o <<46>>,
                             <<82, 101, 109, 111, 118, 101, 100, 32, 115,
                                   101, 115, 115, 105, 111, 110, 32>>
                             \o Decimal(choice(<<1, 999>>,
                                   d.hi)) \o <<46>> >>, d.hi)
        process == << <<115, 121, 115, 116, 101, 109, 100, 45, 108, 111, 103,
              105, 110, 100>>, <<115, 117>>, <<108, 111, 103, 105,
              110>> >>[d.sel]
    IN  _format_syslog(SyslogTime(g, d.seconds_past), SyslogHost(d), process,
          pid,
                       message)

\* SyslogGenerator._generate_cron_event; d.sel is the event drawn
_generate_cron_event(g, d) ==
    LET pid == choice(<<1000, 65535>>, d.hi)
        user == choice(syslog_users, d.hi)
        command == choice(<< <<47, 117, 115, 114, 47, 98, 105, 110, 47, 98,
              97, 99, 107, 117, 112, 46, 115, 104>>, <<47, 117, 115, 114, 47,
              108, 111, 99, 97, 108, 47, 98, 105, 110, 47, 99, 108, 101, 97,
              110, 117, 112, 46, 115, 104>>,
                             <<47, 104, 111, 109, 101, 47, 117, 115, 101,
                                   114, 47, 115, 99, 114, 105, 112, 116, 115,
                                   47, 109, 111, 110, 105, 116, 111, 114, 46,
                                   112, 121>>,
                             <<47, 117, 115, 114, 47, 98, 105, 110, 47, 99,
                                   101, 114, 116, 98, 111, 116, 32, 114, 101,
                                   110, 101, 119>>, <<47, 117, 115, 114, 47,
                                   98, 105, 110, 47, 117, 112, 100, 97, 116,
                                   101, 100, 98>> >>,
                          d.hi)
        message == << <<40>> \o user \o <<41, 32, 67, 77, 68, 32,
              40>> \o command \o <<41>>,
                      <<40, 67, 82, 79, 78, 41, 32, 105, 110, 102, 111, 32,
                            40, 78, 111, 32, 77, 84, 65, 32, 105, 110, 115,
                            116, 97, 108, 108, 101, 100, 44, 32, 100, 105,
                            115, 99, 97, 114, 100, 105, 110, 103, 32, 111,
                            117, 116, 112, 117, 116, 41>>,
                      <<40>> \o user
                      \o <<41, 32, 67, 77, 68, 32, 40, 99, 100, 32, 47, 118,
                            97, 114, 47, 119, 119, 119, 32, 38, 38, 32, 112,
                            104, 112, 32, 97, 114, 116, 105, 115, 97, 110,
                            32, 115, 99, 104, 101, 100, 117, 108, 101, 58,
                            114, 117, 110, 41>> >>[d.sel]
    IN  _format_syslog(SyslogTime(g, d.seconds_past), SyslogHost(d), <<67,
          82, 79, 78>>, pid,
                       message)

\* SyslogGenerator._generate_systemd_event
_generate_systemd_event(g, d) ==
    LET pid == choice(<<1, 2000>>, d.hi)
        units == << <<110, 103, 105, 110, 120, 46, 115, 101, 114, 118,
              105, 99, 101>>, <<97, 112, 97, 99, 104, 101, 50, 46, 115, 101,
              114, 118, 105, 99, 101>>, <<109, 121, 115, 113, 108, 46, 115,
              101, 114, 118, 105, 99, 101>>,
                       <<112, 111, 115, 116, 103, 114, 101, 115, 113, 108,
                             46, 115, 101, 114, 118, 105, 99, 101>>, <<114,
                             101, 100, 105, 115, 46, 115, 101, 114, 118, 105,
                             99, 101>>,
                       <<100, 111, 99, 107, 101, 114, 46, 115, 101, 114, 118,
                             105, 99, 101>>, <<115, 115, 104, 100, 46, 115,
                             101, 114, 118, 105, 99, 101>>, <<99, 114, 111,
                             110, 46, 115, 101, 114, 118, 105, 99, 101>>,
                       <<117, 102, 119, 46, 115, 101, 114, 118, 105, 99,
                             101>> >>
        service == choice(units, d.hi)
        message == choice(<< <<83, 116, 97, 114, 116, 101, 100,
              32>> \o service \o <<46>>,
                             <<83, 116, 111, 112, 112, 101, 100,
                                   32>> \o service \o <<46>>,
                             <<82, 101, 108, 111, 97, 100, 105, 110, 103,
                                   32>> \o service \o <<46>>,
                             <<83, 116, 111, 112, 112, 105, 110, 103,
                                   32>> \o service \o <<46, 46, 46>>,
                             <<83, 116, 97, 114, 116, 105, 110, 103,
                                   32>> \o service \o <<46, 46, 46>>,
                             service \o <<58, 32, 83, 117, 99, 99, 101, 101,
                                   100, 101, 100, 46>>,
                             service
                             \o <<58, 32, 77, 97, 105, 110, 32, 112, 114,
                                   111, 99, 101, 115, 115, 32, 101, 120, 105,
                                   116, 101, 100, 44, 32, 99, 111, 100, 101,
                                   61, 101, 120, 105, 116, 101, 100, 44, 32,
                                   115, 116, 97, 116, 117, 115, 61, 48, 47,
                                   83, 85, 67, 67, 69, 83, 83>> >>,
                          d.hi)
    IN  _format_syslog(SyslogTime(g, d.seconds_past), SyslogHost(d), <<115,
          121, 115, 116, 101, 109, 100>>,
                       pid, message)

\* SyslogGenerator._generate_kernel_event; d.sel is the event drawn
_generate_kernel_event(g, d) ==
    LET private == IpText(IpSamples[TRUE][d.hi])
        public == IpText(IpSamples[FALSE][d.hi])
        message ==
            << <<75, 101, 114, 110, 101, 108, 32, 108, 111, 103, 103, 105,
                  110, 103, 32, 40, 112, 114, 111, 99, 41, 32, 115, 116, 111,
                  112, 112, 101, 100, 46>>,
               <<75, 101, 114, 110, 101, 108, 32, 108, 111, 103, 32, 100, 97,
                     101, 109, 111, 110, 32, 116, 101, 114, 109, 105, 110,
                     97, 116, 105, 110, 103, 46>>,
               <<79, 85, 84, 61>> \o choice(<< <<101, 116, 104, 48>>, <<101,
                     116, 104, 49>>, <<101, 110, 115, 51, 51>>, <<101, 110,
                     112, 48, 115, 51>> >>, d.hi) \o <<32, 77, 65, 67, 61>>
               \o generate_mac_address(d.hi) \o <<32, 83, 82, 67,
                     61>> \o private \o <<32, 68, 83, 84, 61>>
               \o private,
               <<91, 85, 70, 87, 32, 66, 76, 79, 67, 75, 93, 32, 73, 78,
                     61>> \o choice(<< <<101, 116, 104, 48>>, <<101, 116,
                     104, 49>> >>, d.hi)
               \o <<32, 79, 85, 84, 61, 32, 77, 65, 67,
                     61>> \o generate_mac_address(d.hi) \o <<32, 83, 82, 67,
                     61>>
               \o public \o <<32, 68, 83, 84, 61>> \o private \o <<32, 80,
                     82, 79, 84, 79, 61, 84, 67, 80, 32, 68, 80, 84, 61>>
               \o Decimal(generate_port(FALSE, d.hi)),
               <<117, 115, 98, 32, 49, 45, 49, 58, 32, 110, 101, 119, 32,
                     104, 105, 103, 104, 45, 115, 112, 101, 101, 100, 32, 85,
                     83, 66, 32, 100, 101, 118, 105, 99, 101, 32, 110, 117,
                     109, 98, 101, 114, 32>>
               \o Decimal(choice(<<2, 10>>, d.hi)) \o <<32, 117, 115, 105,
                     110, 103, 32, 101, 104, 99, 105, 45, 112, 99,
                     105>> >>[d.sel]
    IN  SyslogTime(g, d.seconds_past) \o <<32>> \o SyslogHost(d) \o <<32,
          107, 101, 114, 110, 101, 108, 58, 32>>
        \o message

\* SyslogGenerator._generate_network_event; d.sel is the event drawn
_generate_network_event(g, d) ==
    LET pid == choice(<<1000, 65535>>, d.hi)
        private == IpText(IpSamples[TRUE][d.hi])
        message ==
            << <<68, 72, 67, 80, 65, 67, 75, 32, 102, 114, 111, 109,
                  32>> \o private \o <<32, 40, 120, 105, 100, 61, 48, 120>>
               \o Hex(choice(<<10000000, 99999999>>, d.hi)) \o <<41>>,
               <<83, 101, 114, 118, 101, 114, 32>> \o private \o <<32, 110,
                     111, 116, 32, 114, 101, 115, 112, 111, 110, 100, 105,
                     110, 103, 44, 32, 115, 116, 105, 108, 108, 32, 116, 114,
                     121, 105, 110, 103>>,
               <<108, 105, 110, 107, 32, 98, 101, 99, 111, 109, 101, 115, 32,
                     114, 101, 97, 100, 121>>,
               <<67, 111, 110, 110, 101, 99, 116, 105, 111, 110, 32, 39, 87,
                     105, 114, 101, 100, 32, 99, 111, 110, 110, 101, 99, 116,
                     105, 111, 110, 32, 49, 39, 32, 40>>
               \o Decimal(choice(<<1000, 9999>>, d.hi))
               \o <<41, 32, 115, 117, 99, 99, 101, 115, 115, 102, 117, 108,
                     108, 121, 32, 97, 99, 116, 105, 118, 97, 116, 101, 100,
                     46>> >>[d.sel]
        process == IF d.sel = 1 THEN <<100, 104, 99, 108, 105, 101, 110,
              116>> ELSE <<78, 101, 116, 119, 111, 114, 107, 77, 97, 110, 97,
              103, 101, 114>>
    IN  _format_syslog(SyslogTime(g, d.seconds_past), SyslogHost(d), process,
          pid,
                       message)

\* SyslogGenerator.generate_log, d the values drawn: the text of the line
syslog_generate_log(g, d) ==
    CASE d.event = "ssh" -> _generate_ssh_event(g, d)
      [] d.event = "sudo" -> _generate_sudo_event(g, d)
      [] d.event = "auth" -> _generate_auth_event(g, d)
      [] d.event = "cron" -> _generate_cron_event(g, d)
      [] d.event = "systemd" -> _generate_systemd_event(g, d)
      [] d.event = "kernel" -> _generate_kernel_event(g, d)
      [] d.event = "network" -> _generate_network_event(g, d)

\* the values one SyslogGenerator.generate_log call can draw; d.sel is the
\* choice an event generator makes among its kinds of message
SyslogDraws ==
    LET sels == [ssh |-> 3, sudo |-> 2, auth |-> 3, cron |-> 3, systemd |-> 1,
                 kernel |-> 5, network |-> 4]
    IN  {d \in [event : SeqToSet(EventTypes("syslog")), hi : BOOLEAN,
                seconds_past : RandintSamples(0, max_days_past * 24 * 3600),
                sel : 1..5] : d.sel <= sels[d.event]}

----------------------------------------------------------------------------
(* weighted_choice, and WindowsSecurityGenerator                            *)

\* the values of random.random() the model draws, in hundredths: one on each
\* side of every threshold the code compares a draw with
Hundredths == {0, 10, 11, 15, 16, 30, 31, 50, 51, 70, 71, 99}

\* weighted_choice returning None for a dict without items
weighted_choice_none(choices, r) ==
    IF choices = <<>> THEN [value |-> "None"]
    ELSE [value |-> choices[((r * Len(choices)) \div 100) + 1][1]]

\* weighted_choice returning the last key whatever the weights
weighted_choice_last(choices, r) ==
    IF choices = <<>> THEN [error |-> "IndexError"]
    ELSE [value |-> choices[Len(choices)][1]]

\* BaseLogGenerator.weighted_choice(choices): choices is the dict as the
\* sequence of its <<key, weight>> items, r the random() that random.choices
\* draws, in hundredths.  random.choices accumulates the weights, fails on
\* cum_weights[-1] when there is none and on a total that is not positive,
\* and returns population[bisect(cum_weights, random() * total, 0, n - 1)]
weighted_choice(choices, r) ==
    LET n == Len(choices)
        cum_weights[k \in 0..n] ==
            IF k = 0 THEN 0 ELSE cum_weights[k - 1] + choices[k][2]
        total == cum_weights[n]
        \* bisect_right: the number of entries of cum_weights[0 : n - 1] that
        \* are <= random() * total
        bisect == Cardinality({k \in 1..(n - 1) : cum_weights[k] * 100 <= r * total})
    IN  IF n = 0 THEN [error |-> "IndexError"]
        ELSE IF total <= 0 THEN [error |-> "ValueError"]
        ELSE [value |-> choices[bisect + 1][1]]

\* WindowsSecurityGenerator.event_weights, the weights in hundredths
event_weights ==
    << <<4624, 35>>, <<4625, 15>>, <<4634, 20>>, <<4672, 5>>, <<4720, 2>>,
       <<4732, 3>>, <<4740, 2>>, <<4768, 5>>, <<4776, 5>>, <<5140, 5>>,
       <<5156, 2>>, <<5157, 1>> >>

\* n printed in upper-case hexadecimal, as the format :X prints it
UpperHex(n) == [k \in 1..Len(Hex(n)) |->
                   IF Hex(n)[k] >= 97 THEN Hex(n)[k] - 32 ELSE Hex(n)[k]]

\* WindowsSecurityGenerator._get_windows_timestamp: '%m/%d/%Y %I:%M:%S %p'
_get_windows_timestamp(g, seconds_past) ==
    LET dt == generate_datetime(g, seconds_past)
        c == CivilFromDays(dt.sec \div 86400)
        t == dt.sec % 86400
        hour == t \div 3600
        hour12 == IF hour % 12 = 0 THEN 12 ELSE hour % 12
    IN  Pad(c.month, 2) \o <<47>> \o Pad(c.day,
          2) \o <<47>> \o Decimal(c.year)
        \o <<32>> \o Pad(hour12, 2) \o <<58>> \o Pad((t % 3600) \div 60, 2)
        \o <<58>> \o Pad(t % 60, 2) \o <<32>>
        \o (IF hour < 12 THEN <<65, 77>> ELSE <<80, 77>>)

\* WindowsSecurityGenerator._get_computer_name
_get_computer_name(hi) ==
    LET computer_prefixes == << <<68, 67>>, <<87, 83>>, <<83, 82, 86>>, <<70,
          83>>, <<69, 88, 67, 72>>,
                                <<83, 81, 76>>, <<65, 80, 80>> >>
    IN  choice(computer_prefixes, hi) \o <<45>> \o Pad(choice(<<1, 100>>,
          hi), 3)

\* _format_event writing every field as key=value
_format_event_equals(event_id, level, computer, timestamp, fields) ==
    <<69, 118, 101, 110, 116, 73, 68, 61>> \o Decimal(event_id) \o <<32, 76,
          101, 118, 101, 108, 61>> \o level
    \o <<32, 67, 111, 109, 112, 117, 116, 101, 114, 61>> \o computer \o <<32,
          84, 105, 109, 101, 71, 101, 110, 101, 114, 97, 116, 101, 100,
          61>> \o timestamp \o <<32>>
    \o join(<<59, 32>>,
          [k \in 1..Len(fields) |-> fields[k][1] \o <<61>> \o fields[k][2]])

\* WindowsSecurityGenerator._format_event; fields is the dict as the sequence
\* of its <<key, value>> items
_format_event(event_id, level, computer, timestamp, fields) ==
    LET field_parts == [k \in 1..Len(fields) |->
                           fields[k][1] \o <<58, 32>> \o fields[k][2]]
        fields_str == join(<<59, 32>>, field_parts)
    IN  <<69, 118, 101, 110, 116, 73, 68, 61>> \o Decimal(event_id) \o <<32,
          76, 101, 118, 101, 108, 61>> \o level
        \o <<32, 67, 111, 109, 112, 117, 116, 101, 114,
              61>> \o computer \o <<32, 84, 105, 109, 101, 71, 101, 110, 101,
              114, 97, 116, 101, 100, 61>> \o timestamp
        \o <<32>> \o fields_str

\* the vocabulary WindowsSecurityGenerator.__init__ stores on the instance
WindowsSecurityGenerator ==
    [domains |-> << <<67, 79, 82, 80>>, <<69, 78, 84, 69, 82, 80, 82, 73, 83,
          69>>, <<68, 79, 77, 65, 73, 78>>, <<67, 79, 78, 84, 79, 83, 79>> >>,
     windows_users |->
         << <<65, 100, 109, 105, 110, 105, 115, 116, 114, 97, 116, 111,
               114>>, <<97, 100, 109, 105, 110>>, <<106, 111, 104, 110, 46,
               100, 111, 101>>, <<106, 97, 110, 101, 46, 115, 109, 105, 116,
               104>>,
            <<115, 101, 114, 118, 105, 99, 101, 95, 97, 99, 99, 111, 117,
                  110, 116>>, <<98, 97, 99, 107, 117, 112, 95, 97, 100, 109,
                  105, 110>>, <<115, 113, 108, 95, 115, 101, 114, 118, 105,
                  99, 101>>,
            <<105, 105, 115, 95, 97, 112, 112, 112, 111, 111, 108>>, <<115,
                  121, 115, 116, 101, 109>>, <<110, 101, 116, 119, 111, 114,
                  107, 95, 115, 101, 114, 118, 105, 99, 101>> >>,
     logon_types |->
         << <<2, <<73, 110, 116, 101, 114, 97, 99, 116, 105, 118, 101>>>>,
               <<3, <<78, 101, 116, 119, 111, 114, 107>>>>, <<4, <<66, 97,
               116, 99, 104>>>>,
            <<5, <<83, 101, 114, 118, 105, 99, 101>>>>, <<7, <<85, 110, 108,
                  111, 99, 107>>>>, <<8, <<78, 101, 116, 119, 111, 114, 107,
                  67, 108, 101, 97, 114, 116, 101, 120, 116>>>>,
            <<10, <<82, 101, 109, 111, 116, 101, 73, 110, 116, 101, 114, 97,
                  99, 116, 105, 118, 101>>>>, <<11, <<67, 97, 99, 104, 101,
                  100, 73, 110, 116, 101, 114, 97, 99, 116, 105, 118,
                  101>>>> >>,
     security_groups |->
         << <<68, 111, 109, 97, 105, 110, 32, 65, 100, 109, 105, 110, 115>>,
               <<69, 110, 116, 101, 114, 112, 114, 105, 115, 101, 32, 65,
               100, 109, 105, 110, 115>>, <<65, 100, 109, 105, 110, 105, 115,
               116, 114, 97, 116, 111, 114, 115>>,
            <<82, 101, 109, 111, 116, 101, 32, 68, 101, 115, 107, 116, 111,
                  112, 32, 85, 115, 101, 114, 115>>, <<66, 97, 99, 107, 117,
                  112, 32, 79, 112, 101, 114, 97, 116, 111, 114, 115>>, <<65,
                  99, 99, 111, 117, 110, 116, 32, 79, 112, 101, 114, 97, 116,
                  111, 114, 115>>,
            <<83, 101, 114, 118, 101, 114, 32, 79, 112, 101, 114, 97, 116,
                  111, 114, 115>> >>,
     failure_reasons |->
         << <<85, 110, 107, 110, 111, 119, 110, 32, 117, 115, 101, 114, 32,
               110, 97, 109, 101, 32, 111, 114, 32, 98, 97, 100, 32, 112, 97,
               115, 115, 119, 111, 114, 100>>, <<65, 99, 99, 111, 117, 110,
               116, 32, 99, 117, 114, 114, 101, 110, 116, 108, 121, 32, 100,
               105, 115, 97, 98, 108, 101, 100>>,
            <<65, 99, 99, 111, 117, 110, 116, 32, 108, 111, 103, 111, 110,
                  32, 116, 105, 109, 101, 32, 114, 101, 115, 116, 114, 105,
                  99, 116, 105, 111, 110, 32, 118, 105, 111, 108, 97, 116,
                  105, 111, 110>>,
            <<85, 115, 101, 114, 32, 110, 111, 116, 32, 97, 108, 108, 111,
                  119, 101, 100, 32, 116, 111, 32, 108, 111, 103, 111, 110,
                  32, 97, 116, 32, 116, 104, 105, 115, 32, 99, 111, 109, 112,
                  117, 116, 101, 114>>,
            <<80, 97, 115, 115, 119, 111, 114, 100, 32, 104, 97, 115, 32,
                  101, 120, 112, 105, 114, 101, 100>>, <<65, 99, 99, 111,
                  117, 110, 116, 32, 108, 111, 99, 107, 101, 100, 32, 111,
                  117, 116>> >>]

\* Lookup returning the value of the first item whatever the key
Lookup_first(table, key) ==
    IF table = <<>> THEN [error |-> "KeyError"] ELSE [value |-> table[1][2]]

\* table[key] of a dict given as the sequence of its <<key, value>> items;
\* a key the dict does not have is a KeyError
Lookup(table, key) ==
    LET hits == {k \in 1..Len(table) : table[k][1] = key}
    IN  IF hits = {} THEN [error |-> "KeyError"]
        ELSE [value |-> table[CHOOSE k \in hits : TRUE][2]]

\* f"{logon_type} ({logon_type_name})"
LogonTypeText(logon_type) ==
    Decimal(logon_type) \o <<32, 40>>
    \o Lookup(WindowsSecurityGenerator.logon_types,
          logon_type).value \o <<41>>

\* the invalid username used when random.random() is below 0.7
use_invalid_username_below(u) == u < 70

\* `if random.random() > 0.7` of _generate_4625_failed_logon, u the value of
\* random.random() in hundredths
use_invalid_username(u) == u > 70

\* WindowsSecurityGenerator._generate_4625_failed_logon; d.u is the value of
\* random.random() and the draw of the weighted choice, d.reason the index
\* random.choice draws in failure_reasons
_generate_4625_failed_logon(g, d) ==
    LET self == WindowsSecurityGenerator
        timestamp == _get_windows_timestamp(g, d.seconds_past)
        computer == _get_computer_name(d.hi)
        domain == choice(self.domains, d.hi)
        user == IF use_invalid_username(d.u)
                THEN choice(<< <<97, 100, 109, 105, 110>>, <<116, 101, 115,
                      116>>, <<103, 117, 101, 115, 116>>, <<117, 115, 101,
                      114>>,
                               <<115, 113, 108, 115, 101, 114, 118, 101,
                                     114>> >>, d.hi)
                ELSE choice(self.windows_users, d.hi)
        logon_type == weighted_choice(<< <<2, 20>>, <<3, 40>>, <<10, 40>> >>,
                                      d.u).value
        failure_reason == self.failure_reasons[d.reason]
        status_codes ==
            << << <<85, 110, 107, 110, 111, 119, 110, 32, 117, 115, 101, 114,
                  32, 110, 97, 109, 101, 32, 111, 114, 32, 98, 97, 100, 32,
                  112, 97, 115, 115, 119, 111, 114, 100>>,
                  << <<48, 120, 67, 48, 48, 48, 48, 48, 54, 68>>, <<48, 120,
                        67, 48, 48, 48, 48, 48, 54, 65>> >> >>,
               << <<65, 99, 99, 111, 117, 110, 116, 32, 99, 117, 114, 114,
                     101, 110, 116, 108, 121, 32, 100, 105, 115, 97, 98, 108,
                     101, 100>>, << <<48, 120, 67, 48, 48, 48, 48, 48, 55,
                     50>>, <<48, 120, 48>> >> >>,
               << <<65, 99, 99, 111, 117, 110, 116, 32, 108, 111, 103, 111,
                     110, 32, 116, 105, 109, 101, 32, 114, 101, 115, 116,
                     114, 105, 99, 116, 105, 111, 110, 32, 118, 105, 111,
                     108, 97, 116, 105, 111, 110>>,
                  << <<48, 120, 67, 48, 48, 48, 48, 48, 54, 70>>, <<48, 120,
                        48>> >> >>,
               << <<85, 115, 101, 114, 32, 110, 111, 116, 32, 97, 108, 108,
                     111, 119, 101, 100, 32, 116, 111, 32, 108, 111, 103,
                     111, 110, 32, 97, 116, 32, 116, 104, 105, 115, 32, 99,
                     111, 109, 112, 117, 116, 101, 114>>,
                  << <<48, 120, 67, 48, 48, 48, 48, 48, 55, 48>>, <<48, 120,
                        48>> >> >>,
               << <<80, 97, 115, 115, 119, 111, 114, 100, 32, 104, 97, 115,
                     32, 101, 120, 112, 105, 114, 101, 100>>, << <<48, 120,
                     67, 48, 48, 48, 48, 48, 55, 49>>, <<48, 120, 48>> >> >>,
               << <<65, 99, 99, 111, 117, 110, 116, 32, 108, 111, 99, 107,
                     101, 100, 32, 111, 117, 116>>, << <<48, 120, 67, 48, 48,
                     48, 48, 50, 51, 52>>, <<48, 120, 67, 48, 48, 48, 48, 50,
                     51, 52>> >> >> >>
        codes == Lookup(status_codes, failure_reason)
        fields ==
            << << <<84, 97, 114, 103, 101, 116, 95, 65, 99, 99, 111, 117,
                  110, 116, 95, 78, 97, 109, 101>>, user >>,
               << <<84, 97, 114, 103, 101, 116, 95, 65, 99, 99, 111, 117,
                     110, 116, 95, 68, 111, 109, 97, 105, 110>>, domain >>,
               << <<70, 97, 105, 108, 117, 114, 101, 95, 82, 101, 97, 115,
                     111, 110>>, failure_reason >>,
               << <<83, 116, 97, 116, 117, 115>>, codes.value[1] >>,
               << <<83, 117, 98, 95, 83, 116, 97, 116, 117, 115>>,
                     codes.value[2] >>,
               << <<76, 111, 103, 111, 110, 95, 84, 121, 112, 101>>,
                     LogonTypeText(logon_type) >>,
               << <<83, 111, 117, 114, 99, 101, 95, 78, 101, 116, 119, 111,
                     114, 107, 95, 65, 100, 100, 114, 101, 115, 115>>,
                     IpText(IpSamples[FALSE][d.hi]) >>,
               << <<83, 111, 117, 114, 99, 101, 95, 80, 111, 114, 116>>,
                     Decimal(choice(<<49152, 65535>>, d.hi)) >>,
               << <<87, 111, 114, 107, 115, 116, 97, 116, 105, 111, 110, 95,
                     78, 97, 109, 101>>, _get_computer_name(d.hi) >> >>
    IN  IF "error" \in DOMAIN codes THEN codes
        ELSE [value |-> _format_event(4625, <<73, 110, 102, 111, 114, 109,
              97, 116, 105, 111, 110>>, computer, timestamp,
                                      fields)]

\* the event_generators dict of WindowsSecurityGenerator.generate_log, looked
\* up at event_id and called: every entry with the body of the method it
\* names (4625 apart); d.u is the value of random.random() and the draw of a
\* weighted choice.  An id the dict does not have is a KeyError
event_generators(event_id, g, d) ==
    LET self == WindowsSecurityGenerator
        timestamp == _get_windows_timestamp(g, d.seconds_past)
        computer == _get_computer_name(d.hi)
        domain == choice(self.domains, d.hi)
        user == choice(self.windows_users, d.hi)
        logon_id == <<48, 120>> \o UpperHex(choice(<<1048576, 16777215>>,
              d.hi))
        private == IpText(IpSamples[TRUE][d.hi])
        public == IpText(IpSamples[FALSE][d.hi])
        Event(level, fields) ==
            [value |-> _format_event(event_id, level, computer, timestamp,
                  fields)]
    IN  CASE event_id = 4624 ->
               \* _generate_4624_successful_logon
               LET logon_type ==
                       weighted_choice(<< <<2, 20>>, <<3, 30>>, <<10, 30>>,
                                          <<5, 10>>, <<4, 10>> >>, d.u).value
                   src_ip == IF d.u > 30 THEN private ELSE public
                   src_computer == IF d.u > 50 THEN _get_computer_name(d.hi)
                                   ELSE <<45>>
               IN  Event(<<73, 110, 102, 111, 114, 109, 97, 116, 105, 111,
                     110>>,
                         << << <<83, 117, 98, 106, 101, 99, 116, 95, 65, 99,
                               99, 111, 117, 110, 116, 95, 78, 97, 109, 101>>,
                               choice(<< <<83, 89, 83, 84, 69, 77>>, <<76,
                                     79, 67, 65, 76, 32, 83, 69, 82, 86, 73,
                                     67, 69>>, user >>,
                                      d.hi) >>,
                            << <<83, 117, 98, 106, 101, 99, 116, 95, 65, 99,
                                  99, 111, 117, 110, 116, 95, 68, 111, 109,
                                  97, 105, 110>>, domain >>,
                            << <<83, 117, 98, 106, 101, 99, 116, 95, 76, 111,
                                  103, 111, 110, 95, 73, 68>>,
                               <<48, 120>> \o UpperHex(choice(<<4096,
                                     65535>>, d.hi)) >>,
                            << <<84, 97, 114, 103, 101, 116, 95, 65, 99, 99,
                                  111, 117, 110, 116, 95, 78, 97, 109, 101>>,
                                  user >>,
                            << <<84, 97, 114, 103, 101, 116, 95, 65, 99, 99,
                                  111, 117, 110, 116, 95, 68, 111, 109, 97,
                                  105, 110>>, domain >>,
                            << <<84, 97, 114, 103, 101, 116, 95, 76, 111,
                                  103, 111, 110, 95, 73, 68>>, logon_id >>,
                            << <<76, 111, 103, 111, 110, 95, 84, 121, 112,
                                  101>>, LogonTypeText(logon_type) >>,
                            << <<83, 111, 117, 114, 99, 101, 95, 78, 101,
                                  116, 119, 111, 114, 107, 95, 65, 100, 100,
                                  114, 101, 115, 115>>, src_ip >>,
                            << <<83, 111, 117, 114, 99, 101, 95, 80, 111,
                                  114, 116>>,
                               Decimal(choice(<<49152, 65535>>, d.hi)) >>,
                            << <<87, 111, 114, 107, 115, 116, 97, 116, 105,
                                  111, 110, 95, 78, 97, 109, 101>>,
                                  src_computer >>,
                            << <<65, 117, 116, 104, 101, 110, 116, 105, 99,
                                  97, 116, 105, 111, 110, 95, 80, 97, 99,
                                  107, 97, 103, 101>>,
                               choice(<< <<75, 101, 114, 98, 101, 114, 111,
                                     115>>, <<78, 84, 76, 77>>, <<78, 101,
                                     103, 111, 116, 105, 97, 116, 101>> >>,
                                      d.hi) >> >>)
          [] event_id = 4625 -> _generate_4625_failed_logon(g, d)
          [] event_id = 4634 ->
               \* _generate_4634_logoff
               Event(<<73, 110, 102, 111, 114, 109, 97, 116, 105, 111, 110>>,
                     << << <<65, 99, 99, 111, 117, 110, 116, 95, 78, 97, 109,
                           101>>, user >>,
                        << <<65, 99, 99, 111, 117, 110, 116, 95, 68, 111,
                              109, 97, 105, 110>>, domain >>,
                        << <<76, 111, 103, 111, 110, 95, 73, 68>>,
                              logon_id >>,
                        << <<76, 111, 103, 111, 110, 95, 84, 121, 112, 101>>,
                           LogonTypeText(choice(<<2, 3, 10>>, d.hi)) >> >>)
          [] event_id = 4672 ->
               \* _generate_4672_special_privileges; random.sample draws the
               \* first three or the last six of the privileges
               LET privileges ==
                       << <<83, 101, 83, 101, 99, 117, 114, 105, 116, 121,
                             80, 114, 105, 118, 105, 108, 101, 103, 101>>,
                             <<83, 101, 66, 97, 99, 107, 117, 112, 80, 114,
                             105, 118, 105, 108, 101, 103, 101>>,
                          <<83, 101, 82, 101, 115, 116, 111, 114, 101, 80,
                                114, 105, 118, 105, 108, 101, 103, 101>>,
                                <<83, 101, 84, 97, 107, 101, 79, 119, 110,
                                101, 114, 115, 104, 105, 112, 80, 114, 105,
                                118, 105, 108, 101, 103, 101>>,
                          <<83, 101, 68, 101, 98, 117, 103, 80, 114, 105,
                                118, 105, 108, 101, 103, 101>>, <<83, 101,
                                83, 121, 115, 116, 101, 109, 69, 110, 118,
                                105, 114, 111, 110, 109, 101, 110, 116, 80,
                                114, 105, 118, 105, 108, 101, 103, 101>>,
                          <<83, 101, 76, 111, 97, 100, 68, 114, 105, 118,
                                101, 114, 80, 114, 105, 118, 105, 108, 101,
                                103, 101>>, <<83, 101, 73, 109, 112, 101,
                                114, 115, 111, 110, 97, 116, 101, 80, 114,
                                105, 118, 105, 108, 101, 103, 101>> >>
                   selected_privs == IF d.hi THEN SubSeq(privileges, 3, 8)
                                     ELSE SubSeq(privileges, 1, 3)
               IN  Event(<<73, 110, 102, 111, 114, 109, 97, 116, 105, 111,
                     110>>,
                         << << <<65, 99, 99, 111, 117, 110, 116, 95, 78, 97,
                               109, 101>>,
                               IF d.u > 50 THEN <<65, 100, 109, 105, 110,
                                     105, 115, 116, 114, 97, 116, 111,
                                     114>> ELSE user >>,
                            << <<65, 99, 99, 111, 117, 110, 116, 95, 68, 111,
                                  109, 97, 105, 110>>, domain >>,
                            << <<76, 111, 103, 111, 110, 95, 73, 68>>,
                                  logon_id >>,
                            << <<80, 114, 105, 118, 105, 108, 101, 103, 101,
                                  115>>, join(<<44, 32>>,
                                  selected_privs) >> >>)
          [] event_id = 4720 ->
               \* _generate_4720_user_created; the two names stand for the
               \* first and last names Faker draws, lower-cased
               LET new_user == choice(<< <<97, 97, 114, 111, 110>>, <<122,
                     111, 101>> >>, d.hi) \o <<46>>
                               \o choice(<< <<97, 98, 98, 111, 116, 116>>,
                                     <<122, 117, 110, 105, 103, 97>> >>, d.hi)
                   sid == <<83, 45, 49, 45, 53, 45, 50, 49, 45>>
                          \o (IF d.hi THEN <<57, 57, 57, 57, 57, 57, 57, 57,
                                57, 57>> ELSE <<49, 48, 48, 48, 48, 48, 48,
                                48, 48, 48>>)
                          \o <<45>> \o Decimal(choice(<<100000, 999999>>,
                                d.hi))
                          \o <<45>> \o Decimal(choice(<<100000, 999999>>,
                                d.hi))
                          \o <<45>> \o Decimal(choice(<<1000, 9999>>, d.hi))
               IN  Event(<<73, 110, 102, 111, 114, 109, 97, 116, 105, 111,
                     110>>,
                         << << <<83, 117, 98, 106, 101, 99, 116, 95, 65, 99,
                               99, 111, 117, 110, 116, 95, 78, 97, 109, 101>>,
                               choice(<< <<65, 100, 109, 105, 110, 105, 115,
                                     116, 114, 97, 116, 111, 114>>, <<97,
                                     100, 109, 105, 110>>,
                                         <<104, 114, 95, 97, 100, 109, 105,
                                               110>> >>, d.hi) >>,
                            << <<83, 117, 98, 106, 101, 99, 116, 95, 65, 99,
                                  99, 111, 117, 110, 116, 95, 68, 111, 109,
                                  97, 105, 110>>, domain >>,
                            << <<84, 97, 114, 103, 101, 116, 95, 65, 99, 99,
                                  111, 117, 110, 116, 95, 78, 97, 109, 101>>,
                                  new_user >>,
                            << <<84, 97, 114, 103, 101, 116, 95, 65, 99, 99,
                                  111, 117, 110, 116, 95, 68, 111, 109, 97,
                                  105, 110>>, domain >>,
                            << <<84, 97, 114, 103, 101, 116, 95, 83, 101, 99,
                                  117, 114, 105, 116, 121, 95, 73, 68>>,
                                  sid >> >>)
          [] event_id = 4732 ->
               \* _generate_4732_member_added
               Event(<<73, 110, 102, 111, 114, 109, 97, 116, 105, 111, 110>>,
                     << << <<83, 117, 98, 106, 101, 99, 116, 95, 65, 99, 99,
                           111, 117, 110, 116, 95, 78, 97, 109, 101>>,
                           choice(<< <<65, 100, 109, 105, 110, 105, 115, 116,
                                 114, 97, 116, 111, 114>>, <<97, 100, 109,
                                 105, 110>> >>, d.hi) >>,
                        << <<83, 117, 98, 106, 101, 99, 116, 95, 65, 99, 99,
                              111, 117, 110, 116, 95, 68, 111, 109, 97, 105,
                              110>>, domain >>,
                        << <<77, 101, 109, 98, 101, 114, 95, 78, 97, 109,
                              101>>, domain \o <<92>> \o user >>,
                        << <<84, 97, 114, 103, 101, 116, 95, 71, 114, 111,
                              117, 112, 95, 78, 97, 109, 101>>,
                           choice(self.security_groups, d.hi) >>,
                        << <<84, 97, 114, 103, 101, 116, 95, 71, 114, 111,
                              117, 112, 95, 68, 111, 109, 97, 105, 110>>,
                              domain >> >>)
          [] event_id = 4740 ->
               \* _generate_4740_account_locked
               Event(<<87, 97, 114, 110, 105, 110, 103>>,
                     << << <<84, 97, 114, 103, 101, 116, 95, 65, 99, 99, 111,
                           117, 110, 116, 95, 78, 97, 109, 101>>, user >>,
                        << <<84, 97, 114, 103, 101, 116, 95, 65, 99, 99, 111,
                              117, 110, 116, 95, 68, 111, 109, 97, 105,
                              110>>, domain >>,
                        << <<67, 97, 108, 108, 101, 114, 95, 67, 111, 109,
                              112, 117, 116, 101, 114, 95, 78, 97, 109,
                              101>>, _get_computer_name(d.hi) >> >>)
          [] event_id = 4768 ->
               \* _generate_4768_kerberos_tgt
               Event(<<73, 110, 102, 111, 114, 109, 97, 116, 105, 111, 110>>,
                     << << <<65, 99, 99, 111, 117, 110, 116, 95, 78, 97, 109,
                           101>>, user >>,
                        << <<65, 99, 99, 111, 117, 110, 116, 95, 68, 111,
                              109, 97, 105, 110>>, domain >>,
                        << <<67, 108, 105, 101, 110, 116, 95, 65, 100, 100,
                              114, 101, 115, 115>>, private >>,
                        << <<84, 105, 99, 107, 101, 116, 95, 79, 112, 116,
                              105, 111, 110, 115>>, <<48, 120, 52, 48, 56,
                              49, 48, 48, 49, 48>> >>,
                        << <<82, 101, 115, 117, 108, 116, 95, 67, 111, 100,
                              101>>,
                           IF d.u > 10 THEN <<48, 120, 48>>
                           ELSE choice(<< <<48, 120, 54>>, <<48, 120, 49,
                                 50>>, <<48, 120, 49, 55>>, <<48, 120, 49,
                                 56>> >>,
                                       d.hi) >>,
                        << <<84, 105, 99, 107, 101, 116, 95, 69, 110, 99,
                              114, 121, 112, 116, 105, 111, 110, 95, 84, 121,
                              112, 101>>,
                           choice(<< <<48, 120, 49, 50>>, <<48, 120, 49,
                                 55>>, <<48, 120, 49, 56>> >>, d.hi) >> >>)
          [] event_id = 4776 ->
               \* _generate_4776_ntlm_auth
               Event(<<73, 110, 102, 111, 114, 109, 97, 116, 105, 111, 110>>,
                     << << <<65, 117, 116, 104, 101, 110, 116, 105, 99, 97,
                           116, 105, 111, 110, 95, 80, 97, 99, 107, 97, 103,
                           101>>,
                           <<77, 73, 67, 82, 79, 83, 79, 70, 84, 95, 65, 85,
                                 84, 72, 69, 78, 84, 73, 67, 65, 84, 73, 79,
                                 78, 95, 80, 65, 67, 75, 65, 71, 69, 95, 86,
                                 49, 95, 48>> >>,
                        << <<76, 111, 103, 111, 110, 95, 65, 99, 99, 111,
                              117, 110, 116>>, user >>,
                        << <<83, 111, 117, 114, 99, 101, 95, 87, 111, 114,
                              107, 115, 116, 97, 116, 105, 111, 110>>,
                              _get_computer_name(d.hi) >>,
                        << <<69, 114, 114, 111, 114, 95, 67, 111, 100, 101>>,
                           IF d.u > 15 THEN <<48, 120, 48>>
                           ELSE choice(<< <<48, 120, 67, 48, 48, 48, 48, 48,
                                 54, 52>>, <<48, 120, 67, 48, 48, 48, 48, 48,
                                 54, 65>>,
                                          <<48, 120, 67, 48, 48, 48, 48, 50,
                                                51, 52>> >>, d.hi) >> >>)
          [] event_id = 5140 ->
               \* _generate_5140_share_access
               LET shares == << <<92, 92, 42, 92, 67, 36>>, <<92, 92, 42, 92,
                     65, 68, 77, 73, 78, 36>>, <<92, 92, 42, 92, 73, 80, 67,
                     36>>,
                                <<92, 92, 42, 92, 83, 89, 83, 86, 79, 76>>,
                                      <<92, 92, 42, 92, 78, 69, 84, 76, 79,
                                      71, 79, 78>>, <<92, 92, 42, 92, 83,
                                      104, 97, 114, 101, 100>>,
                                <<92, 92, 42, 92, 85, 115, 101, 114, 115>> >>
               IN  Event(<<73, 110, 102, 111, 114, 109, 97, 116, 105, 111,
                     110>>,
                         << << <<83, 117, 98, 106, 101, 99, 116, 95, 65, 99,
                               99, 111, 117, 110, 116, 95, 78, 97, 109,
                               101>>, user >>,
                            << <<83, 117, 98, 106, 101, 99, 116, 95, 65, 99,
                                  99, 111, 117, 110, 116, 95, 68, 111, 109,
                                  97, 105, 110>>, domain >>,
                            << <<83, 111, 117, 114, 99, 101, 95, 65, 100,
                                  100, 114, 101, 115, 115>>, private >>,
                            << <<83, 111, 117, 114, 99, 101, 95, 80, 111,
                                  114, 116>>,
                               Decimal(choice(<<49152, 65535>>, d.hi)) >>,
                            << <<83, 104, 97, 114, 101, 95, 78, 97, 109,
                                  101>>, choice(shares, d.hi) >>,
                            << <<65, 99, 99, 101, 115, 115, 95, 77, 97, 115,
                                  107>>,
                               choice(<< <<48, 120, 49>>, <<48, 120, 50>>,
                                     <<48, 120, 51>> >>, d.hi) >> >>)
          [] event_id = 5156 ->
               \* _generate_5156_fw_allowed
               LET app_paths ==
                       << <<92, 100, 101, 118, 105, 99, 101, 92, 104, 97,
                             114, 100, 100, 105, 115, 107, 118, 111, 108,
                             117, 109, 101, 50, 92, 119, 105, 110, 100, 111,
                             119, 115, 92, 115, 121, 115, 116, 101, 109, 51,
                             50, 92, 115, 118, 99, 104, 111, 115, 116, 46,
                             101, 120, 101>>,
                          <<92, 100, 101, 118, 105, 99, 101, 92, 104, 97,
                                114, 100, 100, 105, 115, 107, 118, 111, 108,
                                117, 109, 101, 50, 92, 112, 114, 111, 103,
                                114, 97, 109, 32, 102, 105, 108, 101, 115,
                                92, 109, 105, 99, 114, 111, 115, 111, 102,
                                116, 32, 115, 113, 108, 32, 115, 101, 114,
                                118, 101, 114, 92, 109, 115, 115, 113, 108,
                                92, 98, 105, 110, 110, 92, 115, 113, 108,
                                115, 101, 114, 118, 114, 46, 101, 120, 101>>,
                          <<92, 100, 101, 118, 105, 99, 101, 92, 104, 97,
                                114, 100, 100, 105, 115, 107, 118, 111, 108,
                                117, 109, 101, 50, 92, 119, 105, 110, 100,
                                111, 119, 115, 92, 115, 121, 115, 116, 101,
                                109, 51, 50, 92, 100, 110, 115, 46, 101, 120,
                                101>>,
                          <<92, 100, 101, 118, 105, 99, 101, 92, 104, 97,
                                114, 100, 100, 105, 115, 107, 118, 111, 108,
                                117, 109, 101, 50, 92, 119, 105, 110, 100,
                                111, 119, 115, 92, 101, 120, 112, 108, 111,
                                114, 101, 114, 46, 101, 120, 101>> >>
               IN  Event(<<73, 110, 102, 111, 114, 109, 97, 116, 105, 111,
                     110>>,
                         << << <<65, 112, 112, 108, 105, 99, 97, 116, 105,
                               111, 110>>, choice(app_paths, d.hi) >>,
                            << <<68, 105, 114, 101, 99, 116, 105, 111, 110>>,
                               choice(<< <<73, 110, 98, 111, 117, 110, 100>>,
                                     <<79, 117, 116, 98, 111, 117, 110,
                                     100>> >>, d.hi) >>,
                            << <<83, 111, 117, 114, 99, 101, 95, 65, 100,
                                  100, 114, 101, 115, 115>>, private >>,
                            << <<83, 111, 117, 114, 99, 101, 95, 80, 111,
                                  114, 116>>,
                               Decimal(choice(<<1024, 65535>>, d.hi)) >>,
                            << <<68, 101, 115, 116, 105, 110, 97, 116, 105,
                                  111, 110, 95, 65, 100, 100, 114, 101, 115,
                                  115>>,
                               IF d.u > 50 THEN private ELSE public >>,
                            << <<68, 101, 115, 116, 105, 110, 97, 116, 105,
                                  111, 110, 95, 80, 111, 114, 116>>,
                               Decimal(generate_port(TRUE, d.hi)) >>,
                            << <<80, 114, 111, 116, 111, 99, 111, 108>>,
                                  Decimal(choice(<<6, 17>>, d.hi)) >> >>)
          [] event_id = 5157 ->
               \* _generate_5157_fw_blocked
               Event(<<73, 110, 102, 111, 114, 109, 97, 116, 105, 111, 110>>,
                     << << <<65, 112, 112, 108, 105, 99, 97, 116, 105, 111,
                           110>>, <<83, 121, 115, 116, 101, 109>> >>,
                        << <<68, 105, 114, 101, 99, 116, 105, 111, 110>>,
                              <<73, 110, 98, 111, 117, 110, 100>> >>,
                        << <<83, 111, 117, 114, 99, 101, 95, 65, 100, 100,
                              114, 101, 115, 115>>, public >>,
                        << <<83, 111, 117, 114, 99, 101, 95, 80, 111, 114,
                              116>>, Decimal(choice(<<1024, 65535>>,
                              d.hi)) >>,
                        << <<68, 101, 115, 116, 105, 110, 97, 116, 105, 111,
                              110, 95, 65, 100, 100, 114, 101, 115, 115>>,
                              private >>,
                        << <<68, 101, 115, 116, 105, 110, 97, 116, 105, 111,
                              110, 95, 80, 111, 114, 116>>,
                           Decimal(generate_port(TRUE, d.hi)) >>,
                        << <<80, 114, 111, 116, 111, 99, 111, 108>>,
                              Decimal(choice(<<6, 17>>, d.hi)) >> >>)
          [] OTHER -> [error |-> "KeyError"]

\* WindowsSecurityGenerator.generate_log; d.r is the draw of the weighted
\* choice of the event id
windows_generate_log(g, d) ==
    LET event_id == weighted_choice(event_weights, d.r)
    IN  IF "error" \in DOMAIN event_id THEN event_id
        ELSE event_generators(event_id.value, g, d)

\* the values one WindowsSecurityGenerator.generate_log call can draw: for
\* the event id, the lowest draw that selects each entry of the weight table
WindowsDraws ==
    {d \in [r : 0..99, u : Hundredths, hi : BOOLEAN, reason : 1..6,
            seconds_past : RandintSamples(0, max_days_past * 24 * 3600)] :
        /\ d.r = 0 \/ weighted_choice(event_weights, d.r)
                      # weighted_choice(event_weights, d.r - 1)
        /\ d.reason = 1 \/ weighted_choice(event_weights, d.r).value = 4625}

----------------------------------------------------------------------------
(* Operations called on their own *)

CallInit ==
    /\ now = Now0
    /\ rng = 0
    /\ fakerRng = 0
    /\ gens = [i \in Inst |-> NoGen]
    /\ out = [i \in Inst |-> <<>>]
    /\ hist = [i \in Inst |-> NoHist]
    /\ call = NoCall

\* generator.generate_ip_address(private)
IpCall(private) ==
    /\ call = NoCall
    /\ \E ip \in generate_ip_address(private) :
          call' = [op |-> "generate_ip_address", private |-> private, result |-> ip]
    /\ UNCHANGED <<now, rng, fakerRng, gens, out, hist>>

IpNext == \E private \in BOOLEAN : IpCall(private)

SpecIp == CallInit /\ [][IpNext]_vars

\* values of random.uniform(0.5, 5) the model draws, in milliseconds
UniformSamples == {500, 2 * 500, 5000}

\* the values one record of VerifonePOSGenerator.generate_logs can draw
PosRangeDraws ==
    [u : UniformSamples, event : SeqToSet(EventTypes("pos")),
     fields : RandintSamples(100, 799), names : {0}]

\* VerifonePOSGenerator().generate_logs(count)
PosCall(count) ==
    /\ call = NoCall
    /\ \E draws \in [1..(IF count < 0 THEN 0 ELSE count) -> PosRangeDraws] :
          LET g == __init__("pos", None, now, rng, fakerRng, 0).g
          IN  call' = [op |-> "generate_logs", count |-> count, draws |-> draws,
                       clock |-> now,
                       result |-> pos_generate_logs(g, now, count, draws).lines]
    /\ UNCHANGED <<now, rng, fakerRng, gens, out, hist>>

\* g = VerifonePOSGenerator() when the process starts; later, g.generate_log()
PosOneCall ==
    /\ call = NoCall
    /\ \E d \in RangeDraws("pos") :
          LET g == __init__("pos", None, Now0, rng, fakerRng, 0).g
          IN  call' = [op |-> "pos_generate_log", draws |-> d, clock |-> now,
                       result |-> generate_log(g, now, d).line]
    /\ UNCHANGED <<now, rng, fakerRng, gens, out, hist>>

PosNext ==
    \/ Tick
    \/ \E count \in Counts : PosCall(count)
    \/ PosOneCall

SpecPos == CallInit /\ [][PosNext]_vars

\* the longest extension value handed to _format_cef
MaxValueLen == 2

\* extension values: every text of 'a', '|' and '\' up to MaxValueLen long
Values == UNION {[1..n -> {97, Pipe, Backslash}] : n \in 0..MaxValueLen}

\* vendor arguments: 'Cisco', 'a\', 'a\\', 'a|b'
VendorArgs ==
    {<<67, 105, 115, 99, 111>>, <<97, Backslash>>, <<97, Backslash, Backslash>>, <<97, Pipe, 98>>}

\* name arguments: 'n', 'n\'
NameArgs == {<<110>>, <<110, Backslash>>}

\* extensions arguments: no, one or two keys, 'msg' and 'request'
ExtensionsArgs ==
    {<<>>}
    \cup {<< <<<<109, 115, 103>>, v>> >> : v \in Values}
    \cup {<< <<<<109, 115, 103>>, v>>, <<<<114, 101, 113, 117, 101, 115, 116>>, w>> >> : v \in Values, w \in Values}

\* generator._format_cef(vendor, 'ASA', '9.8', 'TRAFFIC', name, 5, extensions)
FormatCefCall ==
    /\ call = NoCall
    /\ \E vendor \in VendorArgs, name \in NameArgs, extensions \in ExtensionsArgs :
          call' = [op |-> "_format_cef", vendor |-> vendor, product |-> <<65, 83, 65>>,
                   version |-> <<57, 46, 56>>, event_class_id |-> <<84, 82, 65, 70, 70, 73, 67>>,
                   name |-> name, severity |-> 5, extensions |-> extensions,
                   result |-> _format_cef(vendor, <<65, 83, 65>>, <<57, 46, 56>>, <<84, 82, 65, 70, 70, 73, 67>>,
                                          name, 5, extensions)]
    /\ UNCHANGED <<now, rng, fakerRng, gens, out, hist>>

\* the vendor and version draws: every version of every vendor
VendorDraws ==
    {vv \in (1..Len(vendors)) \X (1..4) : vv[2] <= Len(vendors[vv[1]].versions)}

\* the values one CEFFirewallGenerator.generate_log call can draw; a field
\* an event type does not draw is held at one value
CefDraws ==
    {[event_type |-> "TRAFFIC", vendor |-> vv[1], version |-> vv[2],
          hi |-> hi,
      seconds_past |-> sp, allowed |-> al, src_internal |-> si, proto |-> pr,
      app |-> ap, zones |-> zo, category |-> 1, url |-> FALSE, event |-> 1] :
        vv \in VendorDraws, hi \in BOOLEAN,
        sp \in RandintSamples(0, max_days_past * 24 * 3600),
        al \in BOOLEAN, si \in BOOLEAN, pr \in 1..Len(protocols),
        ap \in BOOLEAN, zo \in BOOLEAN}
    \cup
    {[event_type |-> "THREAT", vendor |-> vv[1], version |-> vv[2], hi |-> hi,
      seconds_past |-> sp, allowed |-> FALSE, src_internal |-> FALSE,
            proto |-> pr,
      app |-> FALSE, zones |-> FALSE, category |-> ca, url |-> ur,
            event |-> 1] :
        vv \in VendorDraws, hi \in BOOLEAN,
        sp \in RandintSamples(0, max_days_past * 24 * 3600),
        pr \in 1..3, ca \in 1..Len(threat_categories), ur \in BOOLEAN}
    \cup
    {[event_type |-> "SYSTEM", vendor |-> vv[1], version |-> vv[2], hi |-> hi,
      seconds_past |-> sp, allowed |-> FALSE, src_internal |-> FALSE,
            proto |-> 1,
      app |-> FALSE, zones |-> FALSE, category |-> 1, url |-> FALSE,
            event |-> ev] :
        vv \in VendorDraws, hi \in BOOLEAN,
        sp \in RandintSamples(0, max_days_past * 24 * 3600),
        ev \in 1..Len(system_event_ids)}

\* CEFFirewallGenerator().generate_log()
CefLogCall ==
    /\ call = NoCall
    /\ \E d \in CefDraws :
          LET g == __init__("cef", None, now, rng, fakerRng, 0).g
          IN  call' = [op |-> "cef_generate_log", draws |-> d,
                       result |-> cef_generate_log(g, d)]
    /\ UNCHANGED <<now, rng, fakerRng, gens, out, hist>>

\* the clock moves before the call is made
CefNext ==
    \/ call = NoCall /\ Tick
    \/ FormatCefCall
    \/ CefLogCall

SpecCef == CallInit /\ [][CefNext]_vars

\* SyslogGenerator().generate_log()
SyslogLogCall ==
    /\ call = NoCall
    /\ \E d \in SyslogDraws :
          LET g == __init__("syslog", None, now, rng, fakerRng, 0).g
          IN  call' = [op |-> "syslog_generate_log", draws |-> d,
                       result |-> syslog_generate_log(g, d)]
    /\ UNCHANGED <<now, rng, fakerRng, gens, out, hist>>

\* WindowsSecurityGenerator().generate_log()
WindowsLogCall ==
    /\ call = NoCall
    /\ \E d \in WindowsDraws :
          LET g == __init__("windows", None, now, rng, fakerRng, 0).g
          IN  call' = [op |-> "windows_generate_log", draws |-> d,
                       result |-> windows_generate_log(g, d)]
    /\ UNCHANGED <<now, rng, fakerRng, gens, out, hist>>

\* the clock moves before the call is made
LineNext ==
    \/ call = NoCall /\ Tick
    \/ SyslogLogCall
    \/ WindowsLogCall

SpecLine == CallInit /\ [][LineNext]_vars

----------------------------------------------------------------------------
(* Helper functions and entry points called on their own *)

MaxWeight == 2

\* the dicts weighted_choice is called with: up to three distinct keys in
\* any order, every weight in 0..MaxWeight
Mappings ==
    LET Keys == {"a", "b", "c"}
        Items(n) == {s \in [1..n -> Keys \X (0..MaxWeight)] :
                        \A i, j \in 1..n : s[i][1] = s[j][1] => i = j}
    IN  UNION {Items(n) : n \in 0..3}

\* BaseLogGenerator.weighted_choice(choices)
WeightedChoiceCall ==
    /\ call = NoCall
    /\ \E choices \in Mappings, r \in Hundredths :
          call' = [op |-> "weighted_choice", choices |-> choices, r |-> r,
                   result |-> weighted_choice(choices, r)]
    /\ UNCHANGED <<now, rng, fakerRng, gens, out, hist>>

\* the texts entered as a count: numbers below, at and above the limits the
\* entry points compare with, a word, and nothing
CountTexts ==
    { <<45, 49>>, <<48>>, <<49>>, <<50>>, <<49, 48, 48, 48, 48>>, <<49, 48,
          48, 48, 49>>, <<97, 98, 99>>, <<>> }

\* int(text): an optional sign and decimal digits, a ValueError otherwise
int(text) ==
    LET signed == text # <<>> /\ text[1] \in {43, 45}
        digits == IF signed THEN Tail(text) ELSE text
        value[k \in 0..Len(digits)] ==
            IF k = 0 THEN 0 ELSE value[k - 1] * 10 + (digits[k] - 48)
    IN  IF digits = <<>> \/ \E k \in 1..Len(digits) : digits[k] \notin 48..57
        THEN [error |-> "ValueError"]
        ELSE [value |-> IF signed /\ text[1] = 45 THEN 0 - value[Len(digits)]
                        ELSE value[Len(digits)]]

\* utils.helpers.validate_count(count, default, max_count): the ValueError
\* raised inside the try block is caught by its own except clause
validate_count(count, default, max_count) ==
    LET num == int(count)
        body == IF "error" \in DOMAIN num THEN num
                ELSE IF num.value <= 0 THEN [error |-> "ValueError"]
                ELSE IF num.value > max_count THEN [error |-> "ValueError"]
                ELSE num
    IN  IF "error" \in DOMAIN body /\ body.error \in {"ValueError",
          "TypeError"}
        THEN [value |-> default]
        ELSE body

\* logkitchen.__main__.main with the arguments given on the command line:
\* what it reports and the generator operations it invokes.  argparse
\* converts --count with type=int and exits with status 2 when that fails
main(args) ==
    LET count == int(args.count)
        Run(ops) == [exit |-> 0, error |-> FALSE, invoked |-> ops]
        Fail(status) == [exit |-> status, error |-> TRUE, invoked |-> <<>>]
    IN  IF "error" \in DOMAIN count THEN Fail(2)
        ELSE IF args.tui THEN Run(<<>>)
        ELSE IF args.all
        THEN Run([k \in 1..4 |-> [op |-> "write_logs",
              count |-> count.value]])
        ELSE IF args.type = None THEN Fail(1)
        ELSE IF args.output
        THEN Run(<< [op |-> "write_logs", count |-> count.value] >>)
        ELSE Run(<< [op |-> "print_logs", count |-> count.value] >>)

\* the /generate view of web.app with the JSON body data: the status of its
\* response, and the generator operations it invokes
generate(data) ==
    LET count == int(data.count)
        Response(status, ops) ==
            [exit |-> status, error |-> status # 200, invoked |-> ops]
    IN  IF "error" \in DOMAIN count THEN Response(500, <<>>)
        ELSE IF ~data.log_type THEN Response(400, <<>>)
        ELSE IF count.value < 1 \/ count.value > 10000 THEN Response(400,
              <<>>)
        ELSE Response(200, << [op |-> "generate_logs",
              count |-> count.value] >>)

\* WelcomeScreen._get_config: the count of the configuration
_get_config(count_input) ==
    LET count == IF count_input # <<>> THEN int(count_input) ELSE [value |-> 100]
    IN  IF "error" \in DOMAIN count THEN 100 ELSE count.value

\* utils.helpers.validate_count(count, default, max_count)
ValidateCountCall ==
    /\ call = NoCall
    /\ \E count \in CountTexts, default \in {1, 100},
          max_count \in {MaxCount, 10000} :
          call' = [op |-> "validate_count", count |-> count,
                   default |-> default, max_count |-> max_count,
                   result |-> validate_count(count, default, max_count)]
    /\ UNCHANGED <<now, rng, fakerRng, gens, out, hist>>

\* python -m logkitchen with arguments
MainCall ==
    /\ call = NoCall
    /\ \E args \in [count : CountTexts, type : {None, Some("syslog")},
                   output : BOOLEAN, all : BOOLEAN, tui : BOOLEAN] :
          call' = [op |-> "main", count |-> args.count, args |-> args,
                   result |-> main(args)]
    /\ UNCHANGED <<now, rng, fakerRng, gens, out, hist>>

\* POST /generate
GenerateCall ==
    /\ call = NoCall
    /\ \E data \in [count : CountTexts, log_type : BOOLEAN] :
          call' = [op |-> "generate", count |-> data.count, args |-> data,
                   result |-> generate(data)]
    /\ UNCHANGED <<now, rng, fakerRng, gens, out, hist>>

\* the TUI: a count typed on the welcome screen, a generator button, and on
\* the generator screen Generate, which saves as well when an output file is
\* configured
TuiCall ==
    /\ call = NoCall
    /\ \E count_input \in CountTexts, output_file \in BOOLEAN :
          LET count == _get_config(count_input)
              generated == << [op |-> "generate_logs", count |-> count] >>
              saved == IF output_file
                       THEN << [op |-> "write_logs", count |-> count] >>
                       ELSE <<>>
          IN  call' = [op |-> "tui", count |-> count_input,
                       args |-> [output_file |-> output_file],
                       result |-> [exit |-> 0, error |-> FALSE,
                                   invoked |-> generated \o saved]]
    /\ UNCHANGED <<now, rng, fakerRng, gens, out, hist>>

\* BaseLogGenerator.generate_port(well_known)
GeneratePortCall ==
    /\ call = NoCall
    /\ \E well_known \in BOOLEAN, hi \in BOOLEAN :
          call' = [op |-> "generate_port", well_known |-> well_known, hi |-> hi,
                   result |-> generate_port(well_known, hi)]
    /\ UNCHANGED <<now, rng, fakerRng, gens, out, hist>>

FnNext ==
    \/ WeightedChoiceCall
    \/ GeneratePortCall
    \/ ValidateCountCall
    \/ MainCall
    \/ GenerateCall
    \/ TuiCall

SpecFn == CallInit /\ [][FnNext]_vars

----------------------------------------------------------------------------
(* An instance together with the tables its constructor stores             *)

\* AuditdGenerator.executables, the dict as the sequence of its items
executables ==
    << << <<47, 98, 105, 110, 47, 108, 115>>, << <<108, 115>>, <<45, 108,
          97>>, <<45, 108, 104>>, <<45, 82>> >> >>,
       << <<47, 98, 105, 110, 47, 99, 97, 116>>, << <<99, 97, 116>>, <<47,
             101, 116, 99, 47, 112, 97, 115, 115, 119, 100>>, <<47, 118, 97,
             114, 47, 108, 111, 103, 47, 115, 121, 115, 108, 111, 103>> >> >>,
       << <<47, 117, 115, 114, 47, 98, 105, 110, 47, 118, 105, 109>>,
          << <<118, 105, 109>>, <<47, 101, 116, 99, 47, 104, 111, 115, 116,
                115>>, <<47, 101, 116, 99, 47, 110, 103, 105, 110, 120, 47,
                110, 103, 105, 110, 120, 46, 99, 111, 110, 102>> >> >>,
       << <<47, 117, 115, 114, 47, 98, 105, 110, 47, 115, 117, 100, 111>>,
          << <<115, 117, 100, 111>>, <<45, 105>>, <<115, 121, 115, 116, 101,
                109, 99, 116, 108, 32, 114, 101, 115, 116, 97, 114, 116, 32,
                110, 103, 105, 110, 120>> >> >>,
       << <<47, 98, 105, 110, 47, 112, 115>>, << <<112, 115>>, <<97, 117,
             120>>, <<45, 101, 102>> >> >>,
       << <<47, 117, 115, 114, 47, 98, 105, 110, 47, 110, 101, 116, 115, 116,
             97, 116>>, << <<110, 101, 116, 115, 116, 97, 116>>, <<45, 116,
             117, 108, 112, 110>>, <<45, 97, 110>> >> >>,
       << <<47, 117, 115, 114, 47, 98, 105, 110, 47, 115, 115, 104>>,
             << <<115, 115, 104>>, <<117, 115, 101, 114, 64, 49, 57, 50, 46,
             49, 54, 56, 46, 49, 46, 49, 48>> >> >>,
       << <<47, 98, 105, 110, 47, 99, 104, 109, 111, 100>>, << <<99, 104,
             109, 111, 100>>, <<55, 53, 53>>, <<47, 116, 109, 112, 47, 115,
             99, 114, 105, 112, 116, 46, 115, 104>> >> >>,
       << <<47, 98, 105, 110, 47, 99, 104, 111, 119, 110>>, << <<99, 104,
             111, 119, 110>>, <<114, 111, 111, 116, 58, 114, 111, 111, 116>>,
             <<47, 101, 116, 99, 47, 112, 97, 115, 115, 119, 100>> >> >>,
       << <<47, 117, 115, 114, 47, 115, 98, 105, 110, 47, 117, 115, 101, 114,
             97, 100, 100>>, << <<117, 115, 101, 114, 97, 100, 100>>, <<45,
             109>>, <<110, 101, 119, 117, 115, 101, 114>> >> >>,
       << <<47, 117, 115, 114, 47, 115, 98, 105, 110, 47, 117, 115, 101, 114,
             100, 101, 108>>, << <<117, 115, 101, 114, 100, 101, 108>>,
             <<111, 108, 100, 117, 115, 101, 114>> >> >>,
       << <<47, 98, 105, 110, 47, 109, 111, 117, 110, 116>>, << <<109, 111,
             117, 110, 116>>, <<47, 100, 101, 118, 47, 115, 100, 97, 49>>,
             <<47, 109, 110, 116>> >> >>,
       << <<47, 98, 105, 110, 47, 115, 121, 115, 116, 101, 109, 99, 116,
             108>>, << <<115, 121, 115, 116, 101, 109, 99, 116, 108>>, <<114,
             101, 115, 116, 97, 114, 116>>, <<110, 103, 105, 110,
             120>> >> >> >>

\* the tables <Kind>Generator.__init__ stores on the instance
Tables(kind) ==
    CASE kind = "syslog" -> [users |-> syslog_users]
      [] kind = "auditd" -> [executables |-> executables]
      [] kind = "cef" ->
           [vendors |-> vendors, protocols |-> protocols,
                 services |-> services,
            event_types |-> EventTypes("cef"),
            threat_categories |-> threat_categories,
            actions_allow |-> actions_allow, actions_deny |-> actions_deny]
      [] kind = "windows" ->
           [vocabulary |-> WindowsSecurityGenerator,
                 event_weights |-> event_weights]
      [] kind = "pos" ->
           [store_ids |-> [k \in 1..700 |-> 99 + k],
            register_ids |-> [k \in 1..10 |-> k - 1]]

\* A = <Kind>Generator(): the instance with its tables
FrameConstruct(kind) ==
    /\ gens["A"] = NoGen
    /\ \E seq0 \in RandintSamples(100, 10000) :
          LET r == __init__(kind, None, now, rng, fakerRng, seq0)
              self == [f \in DOMAIN r.g \cup {"tables"} |->
                          IF f = "tables" THEN Tables(kind) ELSE r.g[f]]
          IN  /\ gens' = [gens EXCEPT !["A"] = self]
              /\ hist' = [hist EXCEPT !["A"].g0 = self]
    /\ UNCHANGED <<now, rng, fakerRng, out, call>>

\* on the instance either generate_log calls, or one generate_logs call, all
\* at the clock of the construction
FrameNext ==
    \/ \E kind \in Kinds : FrameConstruct(kind)
    \/ ~hist["A"].called /\ GenOne
    \/ \E count \in Counts : out["A"] = <<>> /\ GenerateMany("A", count)

SpecFrame == GenInit /\ [][FrameNext]_vars

----------------------------------------------------------------------------
(* AuditdGenerator: the SYSCALL and EXECVE records as text                  *)

\* exit_code drawn from [1, 13, 2] whatever success is
exit_code_drawn(success, pick) == <<1, 13, 2>>[pick]

\* exit_code of _generate_syscall_event: 0 if success == 'yes' else
\* random.choice([1, 13, 2]), pick the position the choice takes
exit_code(success, pick) == IF success = <<121, 101, 115>> THEN 0 ELSE <<1,
      13, 2>>[pick]

\* AuditdGenerator._generate_syscall_event on instance g. d.success and
\* d.exit are the positions random.choice takes in ['yes', 'yes', 'yes', 'no']
\* and in [1, 13, 2]; d.hi picks the low or the high value of every other
\* draw. The line, and the instance with its counter advanced
_generate_syscall_event(g, d) ==
    LET a == _get_audit_timestamp(g, d.seconds_past, d.millisec, d.inc)
        timestamp == Decimal(a.ts.sec) \o <<46>> \o Pad(a.ts.ms, 3)
        syscalls == << <<<<111, 112, 101, 110>>, 2>>, <<<<99, 108, 111, 115,
              101>>, 3>>, <<<<114, 101, 97, 100>>, 0>>,
                       <<<<119, 114, 105, 116, 101>>, 1>>, <<<<101, 120, 101,
                             99, 118, 101>>, 59>>, <<<<102, 111, 114, 107>>,
                             57>>,
                       <<<<107, 105, 108, 108>>, 62>>, <<<<99, 104, 109, 111,
                             100>>, 90>>, <<<<99, 104, 111, 119, 110>>, 92>>,
                       <<<<115, 101, 116, 117, 105, 100>>, 105>>, <<<<115,
                             101, 116, 103, 105, 100>>, 106>>,
                       <<<<117, 110, 108, 105, 110, 107>>, 87>>, <<<<99, 111,
                             110, 110, 101, 99, 116>>, 42>>,
                       <<<<97, 99, 99, 101, 112, 116>>, 43>>, <<<<98, 105,
                             110, 100>>, 49>>, <<<<115, 111, 99, 107, 101,
                             116>>, 41>> >>
        syscall_num == choice(syscalls, d.hi)[2]
        success == << <<121, 101, 115>>, <<121, 101, 115>>, <<121, 101,
              115>>, <<110, 111>> >>[d.success]
        uid == choice(<<0, 1000, 1001, 1002>>, d.hi)
        gid == choice(<<0, 1000, 1001, 1002>>, d.hi)
        pid == choice(<<1000, 65535>>, d.hi)
        ppid == choice(<<1, 1000>>, d.hi)
        exe == choice(g.tables.executables, d.hi)[1]
        cut == CHOOSE i \in 0..Len(exe) :
                  /\ i = 0 \/ exe[i] = 47
                  /\ \A j \in (i + 1)..Len(exe) : exe[j] # 47
        comm == SubSeq(exe, cut + 1, Len(exe))
        \* randint(0, 0xffffffff) printed with :x, the value kept as its two
        \* 16-bit halves
        word == choice(<< <<0, 0>>, <<65535, 65535>> >>, d.hi)
        low == Hex(word[2])
        arg == IF word[1] = 0 THEN low
               ELSE Hex(word[1]) \o [k \in 1..(4 - Len(low)) |-> 48] \o low
        items == choice(<<0, 2>>, d.hi)
        key == choice(<< <<99, 111, 109, 109, 97, 110, 100, 115>>, <<97, 99,
              99, 101, 115, 115>>, <<109, 111, 100, 105, 102, 121>>, <<100,
              101, 108, 101, 116, 101>>,
                         <<40, 110, 117, 108, 108, 41>> >>, d.hi)
        parts == << <<116, 121, 112, 101, 61, 83, 89, 83, 67, 65, 76, 76>>,
                    <<109, 115, 103, 61, 97, 117, 100, 105, 116,
                          40>> \o timestamp \o <<58>> \o Decimal(a.seq) \o <<41, 58>>,
                    <<97, 114, 99, 104, 61, 99, 48, 48, 48, 48, 48, 51, 101>>,
                    <<115, 121, 115, 99, 97, 108, 108,
                          61>> \o Decimal(syscall_num),
                    <<115, 117, 99, 99, 101, 115, 115, 61>> \o success,
                    <<101, 120, 105, 116, 61>> \o Decimal(exit_code(success, d.exit)),
                    <<97, 48, 61>> \o arg, <<97, 49, 61>> \o arg, <<97, 50,
                          61>> \o arg, <<97, 51, 61>> \o arg,
                    <<105, 116, 101, 109, 115, 61>> \o Decimal(items),
                    <<112, 112, 105, 100, 61>> \o Decimal(ppid),
                    <<112, 105, 100, 61>> \o Decimal(pid),
                    <<97, 117, 105, 100, 61>> \o Decimal(uid),
                    <<117, 105, 100, 61>> \o Decimal(uid),
                    <<103, 105, 100, 61>> \o Decimal(gid),
                    <<101, 117, 105, 100, 61>> \o Decimal(uid),
                    <<101, 103, 105, 100, 61>> \o Decimal(gid),
                    <<99, 111, 109, 109, 61, 34>> \o comm \o <<34>>,
                    <<101, 120, 101, 61, 34>> \o exe \o <<34>>,
                    <<107, 101, 121, 61, 34>> \o key \o <<34>> >>
    IN  [line |-> join(<<32>>, parts), g |-> a.g]

\* _generate_execve_event printing argc one greater than the arguments it
\* lists
_generate_execve_event_argc_off(g, d) ==
    LET a == _get_audit_timestamp(g, d.seconds_past, d.millisec, d.inc)
        args == g.tables.executables[d.exe][2]
        cmd_args == [i \in 1..Len(d.picks) |-> args[d.picks[i]]]
        arg_parts == [i \in 1..Len(cmd_args) |->
                         <<97>> \o Decimal(i - 1) \o <<61,
                               34>> \o cmd_args[i] \o <<34>>]
    IN  [line |-> join(<<32>>, << <<116, 121, 112, 101, 61, 69, 88, 69, 67,
          86, 69>>,
                                <<109, 115, 103, 61, 97, 117, 100, 105, 116,
                                      40>> \o Decimal(a.ts.sec) \o <<46>>
                                \o Pad(a.ts.ms,
                                      3) \o <<58>> \o Decimal(a.seq) \o <<41,
                                      58>>,
                                <<97, 114, 103, 99,
                                      61>> \o Decimal(Len(cmd_args) + 1),
                                join(<<32>>, arg_parts) >>),
         g |-> a.g]

\* AuditdGenerator._generate_execve_event on instance g. d.exe is the position
\* random.choice takes in the items of self.executables, d.picks the positions
\* random.sample(args, k) takes in args, in the order it returns them
_generate_execve_event(g, d) ==
    LET a == _get_audit_timestamp(g, d.seconds_past, d.millisec, d.inc)
        timestamp == Decimal(a.ts.sec) \o <<46>> \o Pad(a.ts.ms, 3)
        args == g.tables.executables[d.exe][2]
        cmd_args == [i \in 1..Len(d.picks) |-> args[d.picks[i]]]
        argc == Len(cmd_args)
        arg_parts == [i \in 1..argc |->
                         <<97>> \o Decimal(i - 1) \o <<61,
                               34>> \o cmd_args[i] \o <<34>>]
        parts == << <<116, 121, 112, 101, 61, 69, 88, 69, 67, 86, 69>>,
                    <<109, 115, 103, 61, 97, 117, 100, 105, 116,
                          40>> \o timestamp \o <<58>> \o Decimal(a.seq) \o <<41, 58>>,
                    <<97, 114, 103, 99, 61>> \o Decimal(argc),
                    join(<<32>>, arg_parts) >>
    IN  [line |-> join(<<32>>, parts), g |-> a.g]

\* AuditdGenerator() with the tables its constructor stores, seq0 the value
\* its randint(100, 10000) returns
AuditdGenerator(seq0) ==
    LET r == __init__("auditd", None, now, rng, fakerRng, seq0)
    IN  [f \in DOMAIN r.g \cup {"tables"} |->
            IF f = "tables" THEN Tables("auditd") ELSE r.g[f]]

\* AuditdGenerator()._generate_syscall_event()
SyscallEventCall ==
    /\ call = NoCall
    /\ \E seq0 \in RandintSamples(100, 10000) :
       \E d \in [seconds_past : RandintSamples(0, max_days_past * 24 * 3600),
                 millisec : RandintSamples(0, 999), inc : RandintSamples(1,
                       10),
                 hi : BOOLEAN, success : 1..4, exit : 1..3] :
          call' = [op |-> "_generate_syscall_event", draws |-> d,
                   result |-> _generate_syscall_event(AuditdGenerator(seq0),
                         d).line]
    /\ UNCHANGED <<now, rng, fakerRng, gens, out, hist>>

\* AuditdGenerator()._generate_execve_event(); k is the value randint(1, 3)
\* returns, and random.sample returns any min(len(args), k) distinct
\* positions of args in any order
ExecveEventCall ==
    /\ call = NoCall
    /\ \E seq0 \in RandintSamples(100, 10000), k \in 1..3 :
       \E exe \in 1..Len(executables) :
          LET n == Len(executables[exe][2])
              size == IF n < k THEN n ELSE k
              samples == {p \in [1..size -> 1..n] :
                             \A i, j \in 1..size : p[i] = p[j] => i = j}
          IN  \E picks \in samples :
              \E d \in [seconds_past : RandintSamples(0,
                    max_days_past * 24 * 3600),
                        millisec : RandintSamples(0, 999),
                        inc : RandintSamples(1, 10), exe : {exe}, k : {k},
                        picks : {picks}] :
                 call' = [op |-> "_generate_execve_event", draws |-> d,
                          result |-> _generate_execve_event(AuditdGenerator(seq0),
                                                            d).line]
    /\ UNCHANGED <<now, rng, fakerRng, gens, out, hist>>

\* the clock moves before the call is made
AuditNext ==
    \/ call = NoCall /\ Tick
    \/ SyscallEventCall
    \/ ExecveEventCall

SpecAudit == CallInit /\ [][AuditNext]_vars

----------------------------------------------------------------------------
(* The generator screen of the TUI: Generate, Clear, Save to File           *)

\* button presses one screen takes
MaxPresses == 4

\* no file written
NoWrite == [any |-> FALSE, filename |-> [path |-> "", stamp |-> 0], lines |-> <<>>]

\* BaseLogGenerator.write_logs(filename, count) on the process-wide streams:
\* the lines it generates and writes, each followed by a newline, to the file
\* it opens with mode 'w'
write_logs(g, clock, s, f, filename, count) ==
    LET wrote(r) == [g |-> r.g, rng |-> r.rng, faker |-> r.faker,
                     written |-> [any |-> TRUE, filename |-> filename,
                                  lines |-> r.lines]]
    IN  wrote(StreamLogs(g, clock, s, f, count))

\* GeneratorScreen._save_to_file on screen `self` with generator g: the file
\* is config['output_file'], or is named after the log type and the second
\* of the wall clock
_save_to_file(self, g, clock, s, f) ==
    LET filename == IF self.config.output_file
                    THEN [path |-> "output_file", stamp |-> 0]
                    ELSE [path |-> self.log_type, stamp |-> clock.sec]
        saved(w) ==
            [g |-> w.g, rng |-> w.rng, faker |-> w.faker,
             files |-> {file \in self.files : file.filename # filename}
                       \cup {[filename |-> filename, lines |-> w.written.lines]},
             written |-> w.written]
    IN  IF g = NoGen
        THEN [g |-> g, rng |-> s, faker |-> f, files |-> self.files,
              written |-> NoWrite]
        ELSE saved(write_logs(g, clock, s, f, filename, self.config.count))

\* GeneratorScreen(log_type, config) mounted: on_mount constructs the
\* generator of the log type with config['seed']
on_mount(log_type, config) ==
    /\ call = NoCall
    /\ gens["A"] = NoGen
    /\ LET s1 == BaseInit(config.seed, now, rng, fakerRng).rng
           r == __init__(log_type, config.seed, now, rng, fakerRng,
                         randint(Raw(s1), 100, 10000))
       IN  /\ gens' = [gens EXCEPT !["A"] = r.g]
           /\ rng' = r.rng
           /\ fakerRng' = r.faker
    /\ call' = [op |-> "GeneratorScreen", log_type |-> log_type, config |-> config,
                logs_generated |-> FALSE, log_output |-> <<>>, files |-> {},
                last |-> "on_mount", written |-> NoWrite, presses |-> 0]
    /\ UNCHANGED <<now, out, hist>>

\* the Generate button
on_generate_pressed ==
    /\ call.op = "GeneratorScreen"
    /\ call.presses < MaxPresses
    /\ \E r \in {StreamLogs(gens["A"], now, rng, fakerRng, call.config.count)} :
          LET shown == [call EXCEPT !.log_output = r.lines,
                                    !.logs_generated = TRUE,
                                    !.last = "on_generate_pressed",
                                    !.written = NoWrite, !.presses = @ + 1]
          IN  IF call.config.output_file
              THEN \E w \in {_save_to_file(shown, r.g, now, r.rng, r.faker)} :
                      /\ gens' = [gens EXCEPT !["A"] = w.g]
                      /\ rng' = w.rng
                      /\ fakerRng' = w.faker
                      /\ call' = [shown EXCEPT !.files = w.files,
                                               !.written = w.written]
              ELSE /\ gens' = [gens EXCEPT !["A"] = r.g]
                   /\ rng' = r.rng
                   /\ fakerRng' = r.faker
                   /\ call' = shown
    /\ UNCHANGED <<now, out, hist>>

\* the Clear button
on_clear_pressed ==
    /\ call.op = "GeneratorScreen"
    /\ call.presses < MaxPresses
    /\ call' = [call EXCEPT !.log_output = <<>>, !.logs_generated = FALSE,
                            !.last = "on_clear_pressed", !.written = NoWrite,
                            !.presses = @ + 1]
    /\ UNCHANGED <<now, rng, fakerRng, gens, out, hist>>

\* the Save to File button
on_save_pressed ==
    /\ call.op = "GeneratorScreen"
    /\ call.presses < MaxPresses
    /\ LET pressed == [call EXCEPT !.last = "on_save_pressed",
                                   !.written = NoWrite, !.presses = @ + 1]
       IN  IF call.logs_generated
           THEN \E w \in {_save_to_file(call, gens["A"], now, rng, fakerRng)} :
                   /\ gens' = [gens EXCEPT !["A"] = w.g]
                   /\ rng' = w.rng
                   /\ fakerRng' = w.faker
                   /\ call' = [pressed EXCEPT !.files = w.files,
                                              !.written = w.written]
           ELSE /\ call' = pressed
                /\ UNCHANGED <<gens, rng, fakerRng>>
    /\ UNCHANGED <<now, out, hist>>

\* the screens the welcome screen opens: a generator button and the
\* configuration of _get_config
TuiNext ==
    \/ Tick
    \/ \E log_type \in BaseKinds :
       \E config \in [count : Counts, seed : {None, Some(1)}, output_file : BOOLEAN] :
          on_mount(log_type, config)
    \/ on_generate_pressed
    \/ on_clear_pressed
    \/ on_save_pressed

SpecTui == CallInit /\ [][TuiNext]_vars

----------------------------------------------------------------------------
(* Claims *)

\* the lines an instance returns when it alone draws from the streams: from
\* instance g and stream states s and f, one generate_log call at each of `clocks`
RECURSIVE SoloRun(_, _, _, _)
SoloRun(g, s, f, clocks) ==
    IF clocks = <<>> THEN <<>>
    ELSE LET r == StreamLog(g, Head(clocks), s, f)
         IN  <<r.line>> \o SoloRun(r.g, r.rng, r.faker, Tail(clocks))

\* C1: two constructions of the same generator type with the same seed, each
\* followed by generate_logs(N), return the same N lines, whatever the wall
\* clock at each construction and call
C1_SameSeedSameOutput ==
    (/\ hist["A"].called /\ hist["B"].called
     /\ gens["A"].kind = gens["B"].kind
     /\ gens["A"].seed # None /\ gens["A"].seed = gens["B"].seed
     /\ hist["A"].count = hist["B"].count)
    => out["A"] = out["B"]

\* C2: the lines an instance's generate_log calls return are those it returns
\* when no other instance is constructed or driven between its calls
C2_InstancesIndependent ==
    \A i \in Inst :
        gens[i] # NoGen =>
            out[i] = SoloRun(hist[i].g0, hist[i].rng, hist[i].faker, hist[i].clocks)

\* C3: a constructor given an integer seed, 0 included, leaves both streams in
\* the state that seed determines
C3_SeedSetsStreams ==
    \A i \in Inst :
        (gens[i] # NoGen /\ gens[i].seed # None) =>
            /\ hist[i].rng = Advance(SeedState(gens[i].seed[1]), CtorDraws(gens[i].kind))
            /\ hist[i].faker = SeedState(gens[i].seed[1])

\* C9: generate_logs(N), N >= 0, of the Syslog, Auditd, CEF and Windows
\* generators returns N lines, the k-th being the line of the k-th of N
\* successive generate_log calls on the instance
C9_ManyIsSuccessiveOnes ==
    \A i \in Inst :
        (hist[i].called /\ gens[i].kind \in BaseKinds /\ hist[i].count >= 0) =>
            /\ Len(out[i]) = hist[i].count
            /\ out[i] = SoloRun(hist[i].g0, hist[i].rng, hist[i].faker,
                                [k \in 1..hist[i].count |-> hist[i].clocks[1]])

C9_Witness ==
    \E i \in Inst :
        /\ hist[i].called /\ gens[i].kind = "auditd" /\ hist[i].count = MaxCount
        /\ Len(out[i]) = MaxCount
        /\ out[i][1] # out[i][MaxCount]

\* C4: on one AuditdGenerator the sequence number of each record is strictly
\* greater than that of the record before it, whatever event types the calls
\* dispatch to
C4_AuditSeqIncreases ==
    \A i \in Inst :
        gens[i].kind = "auditd" =>
            /\ \A k \in 1..Len(out[i]) :
                  out[i][k].seq > (IF k = 1 THEN hist[i].g0.sequence_counter
                                   ELSE out[i][k - 1].seq)
            /\ Len(out[i]) > 0 => gens[i].sequence_counter = out[i][Len(out[i])].seq

C4_Witness ==
    /\ gens["A"].kind = "auditd"
    /\ Len(out["A"]) = MaxCalls
    /\ out["A"][1].event # out["A"][MaxCalls].event
    /\ out["A"][MaxCalls].seq = out["A"][1].seq + 1

\* the instant a printed timestamp denotes
Instant(ts) == DateTime(ts.sec, IF ts.ms = NoMillis THEN 0 ELSE ts.ms)

\* C5 as stated: no generate call modifies the reference clock, and every
\* timestamp a Syslog, Auditd, CEF or Windows line prints is that clock minus
\* 0..7*86400 seconds, so none is later than the clock
C5_TimestampIsClockMinusOffset ==
    \A i \in Inst : \A k \in 1..Len(out[i]) :
        gens[i].kind \in BaseKinds =>
            LET ct == gens[i].current_time
                ts == out[i][k].ts
            IN  /\ ct = hist[i].g0.current_time
                /\ (ct.sec - ts.sec) \in 0..(max_days_past * 86400)
                /\ ts.ms # NoMillis => ts.ms = ct.ms
                /\ DtLeq(Instant(ts), ct)

\* C5 amended: no generate call modifies the reference clock; the whole
\* seconds every such line prints are those of the clock minus 0..7*86400
\* seconds; Syslog, CEF and Windows print nothing finer, Auditd prints after
\* them three digits drawn in 0..999
C5_WholeSecondsAreClockMinusOffset ==
    \A i \in Inst : \A k \in 1..Len(out[i]) :
        gens[i].kind \in BaseKinds =>
            LET ct == gens[i].current_time
                ts == out[i][k].ts
            IN  /\ ct = hist[i].g0.current_time
                /\ (ct.sec - ts.sec) \in 0..(max_days_past * 86400)
                /\ IF gens[i].kind = "auditd" THEN ts.ms \in 0..999
                   ELSE ts.ms = NoMillis

\* an Auditd instance, driven after the wall clock moved on, whose first line
\* prints the clock's second with the digits 999 and whose last line is seven
\* days back
C5_Witness ==
    /\ gens["A"].kind = "auditd"
    /\ now # gens["A"].current_time
    /\ Len(out["A"]) = MaxCalls
    /\ out["A"][1].ts.sec = gens["A"].current_time.sec
    /\ out["A"][1].ts.ms = 999
    /\ out["A"][MaxCalls].ts.sec = gens["A"].current_time.sec - max_days_past * 86400

\* the three RFC 1918 blocks
InRfc1918(ip) ==
    \/ ip[1] = 10
    \/ ip[1] = 172 /\ ip[2] \in 16..31
    \/ ip[1] = 192 /\ ip[2] = 168

\* C8: generate_ip_address(private=True) returns an address of 10.0.0.0/8,
\* 172.16.0.0/12 or 192.168.0.0/16 with a last octet in 1..254, and
\* generate_ip_address(private=False) returns an address of none of them
C8_IpPrivacy ==
    call.op = "generate_ip_address" =>
        IF call.private
        THEN InRfc1918(call.result) /\ call.result[4] \in 1..254
        ELSE ~InRfc1918(call.result)

C8_Witness ==
    /\ call.op = "generate_ip_address"
    /\ call.private
    /\ call.result[1] = 172 /\ call.result[2] = 31 /\ call.result[4] = 254

\* C10: VerifonePOSGenerator.generate_logs(N), N >= 0, returns N lines, each
\* not less than the next as a string (so a descending sort leaves the list
\* unchanged), and each printing a timestamp not earlier than the next
C10_PosSortedDescending ==
    (call.op = "generate_logs" /\ call.count >= 0) =>
        /\ Len(call.result) = call.count
        /\ \A k \in 1..(Len(call.result) - 1) :
              /\ ~StrLess(PosText(call.result[k]), PosText(call.result[k + 1]))
              /\ DtLeq(call.result[k + 1].ts, call.result[k].ts)
        /\ SortDesc(call.result) = call.result

\* the sort moved a line and the list spans the turn of the year
C10_Witness ==
    /\ call.op = "generate_logs"
    /\ call.count = MaxCount
    /\ call.result # PosAppended(call.clock, call.count, call.draws)
    /\ CivilFromDays(call.result[1].ts.sec \div 86400).year
         # CivilFromDays(call.result[call.count].ts.sec \div 86400).year

\* the number of backslashes standing immediately before position i of s
BackslashRun(s, i) ==
    LET starts == {j \in 1..i : \A k \in j..(i - 1) : s[k] = Backslash}
    IN  i - (CHOOSE j \in starts : \A m \in starts : j <= m)

\* the positions of the unescaped pipes of s: those after an even number of
\* backslashes
UnescapedPipes(s) ==
    {i \in 1..Len(s) : s[i] = Pipe /\ BackslashRun(s, i) % 2 = 0}

\* s split on its unescaped pipes
SplitUnescaped(s) ==
    LET P == UnescapedPipes(s)
        n == Cardinality(P)
        pos(k) == CHOOSE i \in P : Cardinality({j \in P : j < i}) = k - 1
    IN  [k \in 1..(n + 1) |->
            SubSeq(s, IF k = 1 THEN 1 ELSE pos(k - 1) + 1,
                      IF k = n + 1 THEN Len(s) ELSE pos(k) - 1)]

\* a value with every backslash doubled and every pipe preceded by a backslash
RECURSIVE Escaped(_)
Escaped(v) ==
    IF v = <<>> THEN <<>>
    ELSE (IF Head(v) \in {Pipe, Backslash} THEN <<Backslash, Head(v)>>
          ELSE <<Head(v)>>) \o Escaped(Tail(v))

\* un-escaping: a backslash is dropped and the character after it kept
RECURSIVE Unescape(_)
Unescape(t) ==
    IF t = <<>> THEN <<>>
    ELSE IF Head(t) = Backslash /\ Len(t) > 1
         THEN <<t[2]>> \o Unescape(Tail(Tail(t)))
    ELSE <<Head(t)>> \o Unescape(Tail(t))

\* the header fields of a _format_cef call that are texts
HeaderFields(c) == {c.vendor, c.product, c.version, c.event_class_id, c.name}

PipeFree(t) == \A i \in 1..Len(t) : t[i] # Pipe

\* the line of a _format_cef call splits into its 7 header fields and the
\* extension segment, which holds each value escaped, and un-escaping each
\* escaped value gives the value back
SplitsAndRoundTrips(c) ==
    LET segs == SplitUnescaped(c.result)
    IN  /\ Len(segs) = 8
        /\ SubSeq(segs, 1, 7)
             = << <<67, 69, 70, 58, 48>>, c.vendor, c.product, c.version, c.event_class_id,
                  c.name, Decimal(c.severity) >>
        /\ segs[8] = join(<<32>>, [k \in 1..Len(c.extensions) |->
                                   c.extensions[k][1] \o <<61>>
                                   \o Escaped(c.extensions[k][2])])
        /\ \A k \in 1..Len(c.extensions) :
              Unescape(Escaped(c.extensions[k][2])) = c.extensions[k][2]

\* C7 as stated: _format_cef called with pipe-free header fields and any
\* extension values emits every backslash of a value doubled and every pipe
\* of a value after a backslash, the line splits on unescaped pipes into 8
\* segments, and un-escaping recovers each value
C7_PipeFreeHeaderRoundTrips ==
    (call.op = "_format_cef" /\ \A h \in HeaderFields(call) : PipeFree(h))
        => SplitsAndRoundTrips(call)

\* C7 amended: the same, for header fields that are pipe-free and do not end
\* in an odd number of backslashes
C7_EscapingRoundTrips ==
    (/\ call.op = "_format_cef"
     /\ \A h \in HeaderFields(call) :
           PipeFree(h) /\ BackslashRun(h, Len(h) + 1) % 2 = 0)
        => SplitsAndRoundTrips(call)

\* a call whose vendor ends in two backslashes and whose two extension values
\* hold a pipe after a backslash and a backslash after a pipe
C7_Witness ==
    /\ call.op = "_format_cef"
    /\ call.vendor = <<97, Backslash, Backslash>>
    /\ call.name = <<110>>
    /\ Len(call.extensions) = 2
    /\ call.extensions[1][2] = <<Backslash, Pipe>>
    /\ call.extensions[2][2] = <<Pipe, Backslash>>

\* C6: every line CEFFirewallGenerator.generate_log returns begins with
\* 'CEF:0|' and splits on unescaped pipes into 8 segments, 7 header fields
\* and the extension segment
C6_CefLineShape ==
    call.op = "cef_generate_log" =>
        /\ SubSeq(call.result, 1, 6) = <<67, 69, 70, 58, 48, 124>>
        /\ Len(SplitUnescaped(call.result)) = 8

\* a threat line of 'Check Point' 'VPN-1 & FireWall-1' 'R81.10' carrying a
\* request, a fname and a fileHash
C6_Witness ==
    /\ call.op = "cef_generate_log"
    /\ call.draws.event_type = "THREAT"
    /\ SplitUnescaped(call.result)[2] = <<67, 104, 101, 99, 107, 32, 80, 111,
          105, 110, 116>>
    /\ SplitUnescaped(call.result)[4] = <<82, 56, 49, 46, 49, 48>>
    /\ Contains(<<32, 114, 101, 113, 117, 101, 115, 116, 61, 104, 116, 116,
          112, 58, 47, 47>>, call.result)
    /\ Contains(<<32, 102, 105, 108, 101, 72, 97, 115, 104, 61, 102, 102,
          102, 102>>, call.result)

FirstAt(text, c, from) ==
    LET hits == {i \in from..Len(text) : text[i] = c}
    IN  IF hits = {} THEN Len(text) + 1
        ELSE CHOOSE i \in hits : \A j \in hits : i <= j

IsDigits(text) == text # <<>> /\ \A i \in 1..Len(text) : text[i] \in 48..57

\* a syslog line cut at its first three separators: the 15 characters of the
\* timestamp, the hostname, the token that ends in a colon, the message
SyslogParts(L) ==
    LET h == FirstAt(L, 32, 17)
        t == FirstAt(L, 32, h + 1)
    IN  [timestamp |-> SubSeq(L, 1, 15), sep |-> SubSeq(L, 16, 16),
         hostname |-> SubSeq(L, 17, h - 1), tag |-> SubSeq(L, h + 1, t - 1),
         message |-> SubSeq(L, t + 1, Len(L))]

\* text is '<Mon> <dd> <HH>:<MM>:<SS>'
IsSyslogTime(text) ==
    /\ Len(text) = 15
    /\ SubSeq(text, 1, 3) \in SeqToSet(MonthAbbr)
    /\ \A i \in {4, 7} : text[i] = 32
    /\ \A i \in {10, 13} : text[i] = 58
    /\ \A i \in {5, 6, 8, 9, 11, 12, 14, 15} : text[i] \in 48..57

\* tag is '<process>[<pid>]:' with a numeric pid
IsProcessPid(tag) ==
    LET b == FirstAt(tag, 91, 1)
    IN  /\ b \in 2..(Len(tag) - 3)
        /\ SubSeq(tag, Len(tag) - 1, Len(tag)) = <<93, 58>>
        /\ IsDigits(SubSeq(tag, b + 1, Len(tag) - 2))

\* C12: every line SyslogGenerator.generate_log returns is
\* '<timestamp> <hostname> <process>[<pid>]: <message>' with a numeric pid,
\* except the lines of kernel events, which are
\* '<timestamp> <hostname> kernel: <message>'; no other event type leaves the
\* bracketed pid out
C12_SyslogLineShape ==
    call.op = "syslog_generate_log" =>
        LET p == SyslogParts(call.result)
        IN  /\ IsSyslogTime(p.timestamp)
            /\ p.sep = <<32>>
            /\ p.hostname # <<>>
            /\ p.message # <<>>
            /\ IF call.draws.event = "kernel" THEN p.tag = <<107, 101, 114,
                  110, 101, 108, 58>>
               ELSE IsProcessPid(p.tag)

\* a kernel line whose message itself opens with a bracket, returned just
\* after the turn of the year
C12_Witness ==
    /\ call.op = "syslog_generate_log"
    /\ call.draws.event = "kernel"
    /\ call.draws.sel = 4
    /\ Contains(<<32, 107, 101, 114, 110, 101, 108, 58, 32, 91, 85, 70, 87,
          32, 66, 76, 79, 67, 75, 93, 32, 73, 78, 61, 101, 116, 104, 49, 32,
          79, 85, 84, 61, 32, 77, 65, 67, 61, 102, 102, 58, 102, 102, 58,
          102, 102, 58, 102, 102, 58, 102, 102, 58, 102, 102, 32, 83, 82, 67,
          61>>,
                call.result)
    /\ SubSeq(call.result, 1, 16) = <<74, 97, 110, 32, 48, 49, 32, 48, 48,
          58, 48, 48, 58, 48, 48, 32>>

\* text cut at every occurrence of sep
RECURSIVE SplitAt(_, _)
SplitAt(text, sep) ==
    LET hits == {i \in 1..(Len(text) - Len(sep) + 1) :
                    SubSeq(text, i, i + Len(sep) - 1) = sep}
        i == CHOOSE h \in hits : \A j \in hits : h <= j
    IN  IF hits = {} THEN <<text>>
        ELSE <<SubSeq(text, 1, i - 1)>>
             \o SplitAt(SubSeq(text, i + Len(sep), Len(text)), sep)

StartsWith(text, prefix) ==
    Len(prefix) <= Len(text) /\ SubSeq(text, 1, Len(prefix)) = prefix

\* a Windows line cut at its first three spaces and behind the 22 characters
\* of its timestamp
WindowsParts(L) ==
    LET a == FirstAt(L, 32, 1)
        b == FirstAt(L, 32, a + 1)
        c == FirstAt(L, 32, b + 1)
    IN  [event |-> SubSeq(L, 1, a - 1), level |-> SubSeq(L, a + 1, b - 1),
         computer |-> SubSeq(L, b + 1, c - 1), time |-> SubSeq(L, c + 1,
               c + 36),
         sep |-> SubSeq(L, c + 37, c + 37), fields |-> SubSeq(L, c + 38,
               Len(L))]

\* part is 'Key: Value', the key a word of letters, digits and underscores
IsKeyValue(part) ==
    \E p \in 2..(Len(part) - 2) :
        /\ SubSeq(part, p, p + 1) = <<58, 32>>
        /\ \A i \in 1..(p - 1) :
              part[i] \in (48..57) \cup (65..90) \cup (97..122) \cup {95}

\* C13: every WindowsSecurityGenerator.generate_log call draws an event id
\* from the weight table of 12 entries, finds a synthesizer for that id (the
\* lookup never fails), and returns a line that begins
\* 'EventID=<that id> Level=<word> Computer=<token> TimeGenerated=' followed
\* by the fields written as 'Key: Value' and joined by '; '
C13_WindowsLineShape ==
    call.op = "windows_generate_log" =>
        LET event_id == weighted_choice(event_weights, call.draws.r)
            ids == {event_weights[k][1] : k \in 1..Len(event_weights)}
            p == WindowsParts(call.result.value)
            word == SubSeq(p.level, 7, Len(p.level))
            stamp == SubSeq(p.time, 15, 36)
            parts == SplitAt(p.fields, <<59, 32>>)
        IN  /\ Len(event_weights) = 12
            /\ Cardinality(ids) = 12
            /\ DOMAIN event_id = {"value"}
            /\ event_id.value \in ids
            /\ DOMAIN call.result = {"value"}
            /\ p.event = <<69, 118, 101, 110, 116, 73, 68,
                  61>> \o Decimal(event_id.value)
            /\ StartsWith(p.level, <<76, 101, 118, 101, 108, 61>>)
            /\ word # <<>>
            /\ \A i \in 1..Len(word) : word[i] \in (65..90) \cup (97..122)
            /\ StartsWith(p.computer, <<67, 111, 109, 112, 117, 116, 101,
                  114, 61>>)
            /\ Len(p.computer) > 9
            /\ StartsWith(p.time, <<84, 105, 109, 101, 71, 101, 110, 101,
                  114, 97, 116, 101, 100, 61>>)
            /\ Len(stamp) = 22
            /\ \A i \in {3, 6} : stamp[i] = 47
            /\ \A i \in {14, 17} : stamp[i] = 58
            /\ SubSeq(stamp, 20, 22) \in {<<32, 65, 77>>, <<32, 80, 77>>}
            /\ p.sep = <<32>>
            /\ \A k \in 1..Len(parts) : IsKeyValue(parts[k])

\* the entry of weight 0.01, the last of the table, drawn at the first
\* midnight of the year
C13_Witness ==
    /\ call.op = "windows_generate_log"
    /\ call.draws.r = 99
    /\ StartsWith(call.result.value,
                  <<69, 118, 101, 110, 116, 73, 68, 61, 53, 49, 53, 55, 32,
                        76, 101, 118, 101, 108, 61, 73, 110, 102, 111, 114,
                        109, 97, 116, 105, 111, 110, 32, 67, 111, 109, 112,
                        117, 116, 101, 114, 61, 65, 80, 80, 45, 49, 48, 48,
                        32, 84, 105, 109, 101, 71, 101, 110, 101, 114, 97,
                        116, 101, 100, 61, 48, 49, 47, 48, 49, 47, 50, 48,
                        50, 55, 32, 49, 50, 58, 48, 48, 58, 48, 48, 32, 65,
                        77, 32, 65, 112, 112, 108, 105, 99, 97, 116, 105,
                        111, 110, 58, 32, 83, 121, 115, 116, 101, 109, 59,
                        32, 68, 105, 114, 101, 99, 116, 105, 111, 110, 58,
                        32, 73, 110, 98, 111, 117, 110, 100, 59, 32, 83, 111,
                        117, 114, 99, 101, 95, 65, 100, 100, 114, 101, 115,
                        115, 58, 32>>)

\* the weight a dict, given as its items, holds for key
WeightOf(choices, key) ==
    choices[CHOOSE k \in 1..Len(choices) : choices[k][1] = key][2]

\* C14: weighted_choice(mapping) returns a key of the mapping; a key whose
\* weight is 0 is never returned when some other key has a positive weight,
\* and the entry of a single-entry mapping with a positive weight is always
\* returned
C14_WeightedChoiceReturnsWeightedKey ==
    call.op = "weighted_choice" =>
        LET choices == call.choices
            keys == {choices[k][1] : k \in 1..Len(choices)}
            positive == {key \in keys : WeightOf(choices, key) > 0}
        IN  /\ "value" \in DOMAIN call.result =>
                  /\ call.result.value \in keys
                  /\ positive # {} => call.result.value \in positive
            /\ positive # {} => "value" \in DOMAIN call.result
            /\ Len(choices) = 1 /\ positive # {} =>
                  call.result = [value |-> choices[1][1]]

\* the highest draw over a mapping whose last key has weight 0: the key
\* before it is returned
C14_Witness ==
    /\ call.op = "weighted_choice"
    /\ call.choices = << <<"a", 0>>, <<"b", 1>>, <<"c", 0>> >>
    /\ call.r = 99
    /\ call.result = [value |-> "b"]

\* C16: weighted_choice called with an empty mapping fails with an error and
\* returns no value
C16_EmptyMappingFails ==
    call.op = "weighted_choice" /\ call.choices = <<>> =>
        /\ "error" \in DOMAIN call.result
        /\ "value" \notin DOMAIN call.result

C16_Witness ==
    /\ call.op = "weighted_choice"
    /\ call.choices = <<>>
    /\ call.result = [error |-> "IndexError"]

\* C15: generate_logs called with a negative count fails with an error, in
\* the base implementation and in the Verifone POS override alike; it never
\* returns a normal result such as an empty list.  A call that has returned
\* has stored its list in out
C15_NegativeCountFails ==
    \A i \in Inst : ~(hist[i].called /\ hist[i].count < 0 /\ out[i] = <<>>)

\* C18: validate_count raises ValueError when the count does not parse as an
\* integer, is not positive or exceeds max_count; it returns the parsed
\* count only when 1 <= count <= max_count
C18_ValidateCountRaises ==
    call.op = "validate_count" =>
        LET num == int(call.count)
            valid == /\ "value" \in DOMAIN num
                     /\ num.value >= 1
                     /\ num.value <= call.max_count
        IN  IF valid THEN call.result = [value |-> num.value]
            ELSE call.result = [error |-> "ValueError"]

\* C17: a count that is zero, negative or out of range, entered at the
\* command line, in the TUI or at the /generate endpoint, is reported as an
\* error there, and no generate_logs, write_logs or print_logs is invoked
\* with a negative count
C17_InvalidCountRejected ==
    call.op \in {"main", "generate", "tui"} =>
        LET num == int(call.count)
            invalid == /\ "value" \in DOMAIN num
                       /\ \/ num.value < 1
                          \/ call.op = "generate" /\ num.value > 10000
            uses == call.op = "main" =>
                        /\ ~call.args.tui
                        /\ call.args.all \/ call.args.type # None
            invoked == call.result.invoked
        IN  /\ invalid /\ uses => call.result.error /\ invoked = <<>>
            /\ \A k \in 1..Len(invoked) : invoked[k].count >= 0

\* C19: generate_port(well_known=True) returns a port in 0..1023, and
\* generate_port(well_known=False) a port in 1024..65535
C19_PortInItsRange ==
    call.op = "generate_port" =>
        IF call.well_known THEN call.result \in 0..1023
        ELSE call.result \in 1024..65535

\* C20: no generate_log or generate_logs call on any generator modifies the
\* tables the instance holds (users, executables, vendors, services, actions,
\* failure reasons, event weights): after any sequence of calls they equal
\* their values at the end of construction, and the only instance state a
\* call may change is the sequence counter of an AuditdGenerator
C20_CallsLeaveTheTables ==
    gens["A"] # NoGen =>
        LET g == gens["A"]
            g0 == hist["A"].g0
        IN  /\ DOMAIN g = DOMAIN g0
            /\ \A f \in DOMAIN g \ {"sequence_counter"} : g[f] = g0[f]
            /\ g.tables = Tables(g.kind)
            /\ g.sequence_counter # g0.sequence_counter => g.kind = "auditd"

\* an AuditdGenerator after two generate_log calls that advanced its counter
\* by ten each
C20_Witness ==
    /\ gens["A"].kind = "auditd"
    /\ Len(out["A"]) = 2
    /\ ~hist["A"].called
    /\ gens["A"].sequence_counter = hist["A"].g0.sequence_counter + 20
    /\ Len(gens["A"].tables.executables) = 13

\* C21: the sequence counter of an AuditdGenerator starts in 100..10000 and
\* each generate_log call advances it once, by 1..10, before printing it: the
\* k-th record carries a number in [init + k, init + 10 * k], consecutive
\* records differ by 1..10, and the counter is the number printed last
C21_SeqCounterSteps ==
    \A i \in Inst :
        gens[i].kind = "auditd" =>
            LET init == hist[i].g0.sequence_counter
                n == Len(out[i])
            IN  /\ init \in 100..10000
                /\ \A k \in 1..n :
                      /\ out[i][k].seq \in (init + k)..(init + 10 * k)
                      /\ out[i][k].seq - (IF k = 1 THEN init ELSE out[i][k - 1].seq)
                            \in 1..10
                /\ gens[i].sequence_counter = (IF n = 0 THEN init ELSE out[i][n].seq)

C21_Witness ==
    /\ gens["A"].kind = "auditd"
    /\ hist["A"].g0.sequence_counter = 10000
    /\ Len(out["A"]) = MaxCalls
    /\ out["A"][1].seq = 10000 + 1
    /\ out["A"][MaxCalls].seq = out["A"][MaxCalls - 1].seq + 10

\* text cut at every occurrence of the code point c
RECURSIVE CutAt(_, _)
CutAt(text, c) ==
    LET i == FirstAt(text, c, 1)
    IN  IF i > Len(text) THEN <<text>>
        ELSE <<SubSeq(text, 1, i - 1)>> \o CutAt(SubSeq(text, i + 1, Len(text)), c)

\* the value of the one field `name=` among the space-separated parts of an
\* audit record, <<>> when there is not exactly one
FieldOf(line, name) ==
    LET parts == CutAt(line, 32)
        at == {i \in 1..Len(parts) : StartsWith(parts[i], name \o <<61>>)}
    IN  IF Cardinality(at) # 1 THEN <<>>
        ELSE LET p == parts[CHOOSE i \in at : TRUE]
             IN  SubSeq(p, Len(name) + 2, Len(p))

\* C22: in every SYSCALL record success is yes or no, success=yes stands
\* exactly with exit=0, and with success=no the exit value is 1, 2 or 13
C22_SuccessMatchesExit ==
    call.op = "_generate_syscall_event" =>
        LET success == FieldOf(call.result, <<115, 117, 99, 99, 101, 115,
              115>>)
            exit == FieldOf(call.result, <<101, 120, 105, 116>>)
        IN  /\ StartsWith(call.result, <<116, 121, 112, 101, 61, 83, 89, 83,
              67, 65, 76, 76, 32>>)
            /\ success \in {<<121, 101, 115>>, <<110, 111>>}
            /\ success = <<121, 101, 115>> <=> exit = <<48>>
            /\ success = <<110, 111>> => exit \in {<<49>>, <<50>>, <<49, 51>>}

C22_Witness ==
    /\ call.op = "_generate_syscall_event"
    /\ Contains(<<32, 115, 117, 99, 99, 101, 115, 115, 61, 110, 111, 32, 101,
          120, 105, 116, 61, 49, 51, 32, 97, 48, 61, 102, 102, 102, 102, 102,
          102, 102, 102, 32>>, call.result)

\* the argument fields 'a<i>="<value>" a<i+1>="<value>" ...' read from the
\* tail of an EXECVE record: the values in order, ok when the tail is nothing
\* but such fields numbered from i upwards without a gap
RECURSIVE ExecveArgs(_, _)
ExecveArgs(rest, i) ==
    LET head == <<97>> \o Decimal(i) \o <<61, 34>>
        q == FirstAt(rest, 34, Len(head) + 1)
        value == SubSeq(rest, Len(head) + 1, q - 1)
        more == ExecveArgs(SubSeq(rest, q + 2, Len(rest)), i + 1)
    IN  IF ~StartsWith(rest, head) \/ q > Len(rest)
        THEN [ok |-> FALSE, values |-> <<>>]
        ELSE IF q = Len(rest) THEN [ok |-> TRUE, values |-> <<value>>]
        ELSE IF rest[q + 1] # 32 THEN [ok |-> FALSE, values |-> <<value>>]
        ELSE [ok |-> more.ok, values |-> <<value>> \o more.values]

C24_TrafficNameSeverityAct ==
    (call.op = "cef_generate_log" /\ call.draws.event_type = "TRAFFIC") =>
        LET segs == SplitUnescaped(call.result)
            name == segs[6]
            severity == segs[7]
            act == FieldOf(segs[8], <<97, 99, 116>>)
        IN  /\ segs[5] = <<84, 82, 65, 70, 70, 73, 67>>
            /\ name \in {<<116, 114, 97, 102, 102, 105, 99, 45, 97, 108, 108,
                  111, 119, 101, 100>>, <<116, 114, 97, 102, 102, 105, 99,
                  45, 100, 101, 110, 105, 101, 100>>}
            /\ name = <<116, 114, 97, 102, 102, 105, 99, 45, 97, 108, 108,
                  111, 119, 101, 100>> =>
                  /\ severity \in {<<49>>, <<50>>, <<51>>}
                  /\ act \in {<<97, 108, 108, 111, 119, 101, 100>>, <<112,
                        101, 114, 109, 105, 116>>, <<97, 99, 99, 101, 112,
                        116>>}
            /\ name = <<116, 114, 97, 102, 102, 105, 99, 45, 100, 101, 110,
                  105, 101, 100>> =>
                  /\ severity \in {<<53>>, <<54>>, <<55>>}
                  /\ act \in {<<100, 101, 110, 105, 101, 100>>, <<100, 114,
                        111, 112>>, <<114, 101, 106, 101, 99, 116>>, <<98,
                        108, 111, 99, 107>>}

C24_Witness ==
    /\ call.op = "cef_generate_log"
    /\ Contains(<<124, 84, 82, 65, 70, 70, 73, 67, 124, 116, 114, 97, 102,
          102, 105, 99, 45, 100, 101, 110, 105, 101, 100, 124, 55, 124>>,
          call.result)
    /\ Contains(<<32, 97, 99, 116, 61, 98, 108, 111, 99, 107, 32>>,
          call.result)

\* which of the three optional extensions a TRAFFIC line carries
Presence(line) ==
    [app |-> Contains(<<32, 97, 112, 112, 61>>, line),
     inbound |-> Contains(<<32, 100, 101, 118, 105, 99, 101, 73, 110, 98,
           111, 117, 110, 100, 73, 110, 116, 101, 114, 102, 97, 99, 101,
           61>>, line),
     outbound |-> Contains(<<32, 100, 101, 118, 105, 99, 101, 79, 117, 116,
           98, 111, 117, 110, 100, 73, 110, 116, 101, 114, 102, 97, 99, 101,
           61>>, line)]

\* the lines the call recorded could have returned had its two draws of
\* random() > 0.5 come out otherwise, every other draw the same
TrafficVariants ==
    LET g == __init__("cef", None, now, rng, fakerRng, 0).g
    IN  {cef_generate_log(g, [call.draws EXCEPT !.app = a, !.zones = z]) :
            a \in BOOLEAN, z \in BOOLEAN}

\* C25 as stated: app, deviceInboundInterface and deviceOutboundInterface are
\* each included independently, so a TRAFFIC line can carry any of the 8
\* combinations of them
C25_ExtensionsIndependent ==
    (call.op = "cef_generate_log" /\ call.draws.event_type = "TRAFFIC") =>
        {Presence(l) : l \in TrafficVariants}
            = [app : BOOLEAN, inbound : BOOLEAN, outbound : BOOLEAN]

\* C25 amended: app is included by one draw and the two interface fields
\* together by another: a TRAFFIC line carries both interface fields or
\* neither, and exactly those 4 combinations can occur
C25_InterfacesComeTogether ==
    (call.op = "cef_generate_log" /\ call.draws.event_type = "TRAFFIC") =>
        /\ Presence(call.result).inbound = Presence(call.result).outbound
        /\ {Presence(l) : l \in TrafficVariants}
              = {p \in [app : BOOLEAN, inbound : BOOLEAN,
                    outbound : BOOLEAN] :
                    p.inbound = p.outbound}

\* a TRAFFIC line without app that carries both interface fields
C25_Witness ==
    /\ call.op = "cef_generate_log"
    /\ call.draws.event_type = "TRAFFIC"
    /\ Presence(call.result) = [app |-> FALSE, inbound |-> TRUE,
          outbound |-> TRUE]

\* the number a text of decimal digits writes
RECURSIVE Number(_)
Number(digits) ==
    IF digits = <<>> THEN 0
    ELSE 10 * Number(SubSeq(digits, 1,
          Len(digits) - 1)) + (digits[Len(digits)] - 48)

\* the four octets of a dotted address, <<>> when the text is not one
Octets(text) ==
    LET parts == SplitAt(text, <<46>>)
    IN  IF Len(parts) = 4 /\ \A k \in 1..4 : IsDigits(parts[k]) /\ Len(parts[k]) <= 3
        THEN [k \in 1..4 |-> Number(parts[k])]
        ELSE <<>>

\* C26: in every CEF THREAT line src is an address outside 10.0.0.0/8,
\* 172.16.0.0/12 and 192.168.0.0/16, and dst is an address inside one of them
C26_ThreatSrcPublicDstPrivate ==
    (call.op = "cef_generate_log" /\ call.draws.event_type = "THREAT") =>
        LET src == Octets(FieldOf(call.result, <<115, 114, 99>>))
            dst == Octets(FieldOf(call.result, <<100, 115, 116>>))
        IN  /\ Contains(<<124, 84, 72, 82, 69, 65, 84, 124, 116, 104, 114,
              101, 97, 116, 45>>, call.result)
            /\ Len(src) = 4 /\ ~InRfc1918(src)
            /\ Len(dst) = 4 /\ InRfc1918(dst)

C26_Witness ==
    /\ call.op = "cef_generate_log"
    /\ call.draws.event_type = "THREAT"
    /\ Contains(<<32, 100, 115, 116, 61, 49, 57, 50, 46, 49, 54, 56, 46, 50,
          53, 53, 46, 50, 53, 52, 32>>, call.result)
    /\ Octets(FieldOf(call.result, <<115, 114, 99>>))[1] > 192

\* C27: a CEF THREAT line carries request whenever its category contains
\* 'url', and carries fname and fileHash exactly when its category contains
\* 'malware' or 'virus'; fileHash is 64 lower-case hexadecimal characters
C27_ThreatOptionalFields ==
    (call.op = "cef_generate_log" /\ call.draws.event_type = "THREAT") =>
        LET cat == FieldOf(call.result, <<99, 97, 116>>)
            infected == Contains(<<109, 97, 108, 119, 97, 114, 101>>,
                  cat) \/ Contains(<<118, 105, 114, 117, 115>>, cat)
            hash == FieldOf(call.result, <<102, 105, 108, 101, 72, 97, 115,
                  104>>)
        IN  /\ cat # <<>>
            /\ Contains(<<117, 114, 108>>, cat) => Contains(<<32, 114, 101,
                  113, 117, 101, 115, 116, 61>>, call.result)
            /\ Contains(<<32, 102, 110, 97, 109, 101, 61>>,
                  call.result) <=> infected
            /\ Contains(<<32, 102, 105, 108, 101, 72, 97, 115, 104, 61>>,
                  call.result) <=> infected
            /\ infected =>
                  /\ Len(hash) = 64
                  /\ \A k \in 1..64 : hash[k] \in (48..57) \cup (97..102)

\* a threat-virus line without request that carries fname and fileHash
C27_Witness ==
    /\ call.op = "cef_generate_log"
    /\ call.draws.event_type = "THREAT"
    /\ Contains(<<32, 99, 97, 116, 61, 118, 105, 114, 117, 115, 32>>,
          call.result)
    /\ ~Contains(<<32, 114, 101, 113, 117, 101, 115, 116, 61>>, call.result)
    /\ Contains(<<32, 102, 110, 97, 109, 101, 61, 112, 97, 121, 108, 111, 97,
          100, 46, 101, 120, 101, 32, 102, 105, 108, 101, 72, 97, 115, 104,
          61, 48, 48, 48, 48>>, call.result)

\* the value of the field `key` of a Windows line, <<>> when it has none
WindowsField(L, key) ==
    LET parts == CutAt(WindowsParts(L).fields, 59)
        at == {k \in 1..Len(parts) :
                  StartsWith(parts[k], (IF k = 1 THEN <<>> ELSE <<32>>) \o key
                                       \o <<58, 32>>)}
    IN  IF at = {} THEN <<>>
        ELSE LET k == CHOOSE j \in at : TRUE
             IN  SubSeq(parts[k], Len(key) + (IF k = 1 THEN 3 ELSE 4), Len(parts[k]))

\* the call recorded returned a 4625 line
Is4625 ==
    /\ call.op = "windows_generate_log"
    /\ DOMAIN call.result = {"value"}
    /\ StartsWith(call.result.value, <<69, 118, 101, 110, 116, 73, 68, 61,
          52, 54, 50, 53, 32>>)

\* the 4625 line the recorded call returns when its random.random() is u
\* hundredths, every other draw the same, names an attack-style username in
\* place of the domain account name drawn
Substituted(u) ==
    LET g == __init__("windows", None, now, rng, fakerRng, 0).g
        d == [call.draws EXCEPT !.u = u]
        name == WindowsField(_generate_4625_failed_logon(g, d).value,
                             <<84, 97, 114, 103, 101, 116, 95, 65, 99, 99,
                                   111, 117, 110, 116, 95, 78, 97, 109, 101>>)
    IN  /\ name \in {<<97, 100, 109, 105, 110>>, <<116, 101, 115, 116>>,
          <<103, 117, 101, 115, 116>>, <<117, 115, 101, 114>>, <<115, 113,
          108, 115, 101, 114, 118, 101, 114>>}
        /\ name # choice(WindowsSecurityGenerator.windows_users, d.hi)

\* C28 as stated: the attack-style username replaces the domain account name
\* for 70% of the range of the uniform draw
C28_SubstitutedFor70Percent ==
    Is4625 => Cardinality({u \in 0..99 : Substituted(u)}) = 70

\* C28 amended: the attack-style username replaces the domain account name
\* exactly when the uniform draw is greater than 0.7, the hundredths 71..99
\* of the range, and the domain account name is kept for a draw up to 0.7
C28_SubstitutedAbove70 ==
    Is4625 =>
        /\ Substituted(call.draws.u) <=> call.draws.u > 70
        /\ {u \in 0..99 : Substituted(u)} = 71..99
        /\ ~Substituted(call.draws.u) =>
              WindowsField(call.result.value, <<84, 97, 114, 103, 101, 116,
                    95, 65, 99, 99, 111, 117, 110, 116, 95, 78, 97, 109,
                    101>>)
                  = choice(WindowsSecurityGenerator.windows_users,
                        call.draws.hi)

\* the first hundredth above 0.7 drawn: the line names sqlserver
C28_Witness ==
    /\ Is4625
    /\ call.draws.u = 71
    /\ Contains(<<32, 84, 97, 114, 103, 101, 116, 95, 65, 99, 99, 111, 117,
          110, 116, 95, 78, 97, 109, 101, 58, 32, 115, 113, 108, 115, 101,
          114, 118, 101, 114, 59, 32>>, call.result.value)

\* C29: a WindowsSecurityGenerator.generate_log call that draws event 4625
\* never fails in its status-code lookup, and the line it returns carries one
\* of the 6 failure reasons with the Status and Sub_Status assigned to that
\* reason, so lines of the same Failure_Reason carry the same pair
C29_StatusFollowsReason ==
    (/\ call.op = "windows_generate_log"
     /\ weighted_choice(event_weights, call.draws.r).value = 4625) =>
        /\ Is4625
        /\ WindowsField(call.result.value, <<70, 97, 105, 108, 117, 114, 101,
              95, 82, 101, 97, 115, 111, 110>>)
              = WindowsSecurityGenerator.failure_reasons[call.draws.reason]
        /\ << WindowsField(call.result.value, <<70, 97, 105, 108, 117, 114,
              101, 95, 82, 101, 97, 115, 111, 110>>),
              WindowsField(call.result.value, <<83, 116, 97, 116, 117, 115>>),
              WindowsField(call.result.value, <<83, 117, 98, 95, 83, 116, 97,
                    116, 117, 115>>) >>
           \in { << <<85, 110, 107, 110, 111, 119, 110, 32, 117, 115, 101,
                 114, 32, 110, 97, 109, 101, 32, 111, 114, 32, 98, 97, 100,
                 32, 112, 97, 115, 115, 119, 111, 114, 100>>, <<48, 120, 67,
                 48, 48, 48, 48, 48, 54, 68>>, <<48, 120, 67, 48, 48, 48, 48,
                 48, 54, 65>> >>,
                 << <<65, 99, 99, 111, 117, 110, 116, 32, 99, 117, 114, 114,
                       101, 110, 116, 108, 121, 32, 100, 105, 115, 97, 98,
                       108, 101, 100>>, <<48, 120, 67, 48, 48, 48, 48, 48,
                       55, 50>>, <<48, 120, 48>> >>,
                 << <<65, 99, 99, 111, 117, 110, 116, 32, 108, 111, 103, 111,
                       110, 32, 116, 105, 109, 101, 32, 114, 101, 115, 116,
                       114, 105, 99, 116, 105, 111, 110, 32, 118, 105, 111,
                       108, 97, 116, 105, 111, 110>>, <<48, 120, 67, 48, 48,
                       48, 48, 48, 54, 70>>, <<48, 120, 48>> >>,
                 << <<85, 115, 101, 114, 32, 110, 111, 116, 32, 97, 108, 108,
                       111, 119, 101, 100, 32, 116, 111, 32, 108, 111, 103,
                       111, 110, 32, 97, 116, 32, 116, 104, 105, 115, 32, 99,
                       111, 109, 112, 117, 116, 101, 114>>, <<48, 120, 67,
                       48, 48, 48, 48, 48, 55, 48>>, <<48, 120, 48>> >>,
                 << <<80, 97, 115, 115, 119, 111, 114, 100, 32, 104, 97, 115,
                       32, 101, 120, 112, 105, 114, 101, 100>>, <<48, 120,
                       67, 48, 48, 48, 48, 48, 55, 49>>, <<48, 120, 48>> >>,
                 << <<65, 99, 99, 111, 117, 110, 116, 32, 108, 111, 99, 107,
                       101, 100, 32, 111, 117, 116>>, <<48, 120, 67, 48, 48,
                       48, 48, 50, 51, 52>>, <<48, 120, 67, 48, 48, 48, 48,
                       50, 51, 52>> >> }

\* the last of the failure reasons drawn
C29_Witness ==
    /\ Is4625
    /\ call.draws.reason = 6
    /\ Contains(<<59, 32, 70, 97, 105, 108, 117, 114, 101, 95, 82, 101, 97,
          115, 111, 110, 58, 32, 65, 99, 99, 111, 117, 110, 116, 32, 108,
          111, 99, 107, 101, 100, 32, 111, 117, 116, 59, 32, 83, 116, 97,
          116, 117, 115, 58, 32, 48, 120, 67, 48, 48, 48, 48, 50, 51, 52, 59,
          32, 83, 117, 98, 95, 83, 116, 97, 116, 117, 115, 58, 32, 48, 120,
          67, 48, 48, 48, 48, 50, 51, 52, 59, 32>>,
                call.result.value)

\* C30: on the generator screen a save, by the Save to File button or by
\* Generate when an output file is configured, writes to the file exactly the
\* lines Generate produced and displayed, and Save to File pressed after
\* Clear, before Generate is pressed again, writes nothing
C30_SaveWritesDisplayed ==
    call.op = "GeneratorScreen" =>
        /\ call.written.any =>
              /\ call.logs_generated
              /\ call.written.lines = call.log_output
              /\ [filename |-> call.written.filename, lines |-> call.log_output]
                    \in call.files
        /\ (call.last = "on_save_pressed" /\ ~call.logs_generated) =>
              ~call.written.any

====
